---- MODULE Spec2Model ----
(***************************************************************************)
(* A model of the render queue (src/src/renderer.rs), of the materials it  *)
(* dispatches to (src/src/material/*.rs), of the skybox (src/src/skybox.rs)*)
(* of the cubemap loader (src/src/cubemap_loader.rs), of the cubemap       *)
(* writers (src/src/cubemap_render.rs, src/src/material/equirectangle.rs,  *)
(* src/src/shaders) and of the image-based-lighting bundle (src/src/ibl),  *)
(* of PbrModel (src/src/pbr_model.rs), of the HDR texture loader           *)
(* (src/src/utils/texture_loader.rs) and of Material::equal.               *)
(*                                                                         *)
(* Spec        one Renderer and the RenderScene it hands out per frame     *)
(* SpecLoader  CubemapLoader::load_mips_fs / load_from_fs and load_ibl_fs  *)
(*             on a directory                                              *)
(* SpecIbl     one call that writes a cubemap (a bake, a conversion or     *)
(*             generate_ibl_from_cubemap) and load_ibl_fs on one output    *)
(*             directory                                                   *)
(* SpecFrame   frames whose scene gets lights and scene variables and to   *)
(*             which a PbrModel and the skybox publish themselves          *)
(* SpecModel   the mutators of one PbrModel                                *)
(* SpecHdr     one HDR panorama decoded and uploaded as a source texture   *)
(* SpecEqual   one call of Material::equal or same_material                *)
(*                                                                         *)
(* In Spec and SpecLoader the GPU (glium's draw) is taken to succeed, and  *)
(* a Rust panic (an unwrap of None) ends the behaviour in phase            *)
(* "Panicked".  In SpecIbl a failure of the GPU or of the file system is   *)
(* an input of the call, which then ends "Ok", "Err" or "Panicked".        *)
(***************************************************************************)
EXTENDS Integers, Sequences, FiniteSets, TLC

VARIABLES
    polygons,     \* Renderer.polygons
    phase,        \* life of the current RenderScene: Idle, Open, Finished, Dropped, Panicked
    scene_data,   \* RenderScene.scene_data
    entries,      \* RenderScene.entries: material type -> sequence of RenderEntry
    published,    \* history: the entries published to the current scene, in publish order
    drawLog,      \* history: the Material::render calls finish made, in call order
    lastOp,       \* history: the operation of the last step
    fs,           \* the cubemap directory: level number -> its subfolder (present?, face files)
    loader,       \* the state of one CubemapLoader call
    ibl_map,      \* the directory <output>/ibl_map (present?, face files)
    brdf_png,     \* whether the file <output>/brdf.png exists
    bake,         \* the last cubemap-writing call: its inputs, what it did, how it ended
    ibl,          \* the last load_ibl_fs call: how it ended and the Ibl it returned
    hdr,          \* one decode-and-upload of an HDR panorama: the call, the pixels, the loop position
    model,        \* one PbrModel: position, rotation_matrix, the model matrix of each segment
    lod,          \* history: the camera position each PbrModel::render read, by entry id
    cmp           \* one Material::equal call: self, other, the result

renderVars == <<polygons, phase, scene_data, entries, published, drawLog, lastOp>>
loaderVars == <<fs, loader>>
iblVars == <<ibl_map, brdf_png, bake, ibl>>
auxVars == <<hdr, model, lod, cmp>>
vars == <<polygons, phase, scene_data, entries, published, drawLog, lastOp, fs, loader,
          ibl_map, brdf_png, bake, ibl, hdr, model, lod, cmp>>

----------------------------------------------------------------------------
(* Bounds *)

MaxPublish == 3
MaxLevels == 3

----------------------------------------------------------------------------
(* cgmath matrices, column major: m[c][r] is column c, row r.  Angles are  *)
(* counted in quarter turns, so that sine and cosine are integers.          *)

Cos(q) == CASE q % 4 = 0 -> 1 [] q % 4 = 1 -> 0 [] q % 4 = 2 -> -1 [] OTHER -> 0
Sin(q) == CASE q % 4 = 0 -> 0 [] q % 4 = 1 -> 1 [] q % 4 = 2 -> 0 [] OTHER -> -1

Mat4(c1, c2, c3, c4) == <<c1, c2, c3, c4>>

ZeroMatrix == Mat4(<<0, 0, 0, 0>>, <<0, 0, 0, 0>>, <<0, 0, 0, 0>>, <<0, 0, 0, 0>>)

FromTranslation(v) ==
    Mat4(<<1, 0, 0, 0>>, <<0, 1, 0, 0>>, <<0, 0, 1, 0>>, <<v[1], v[2], v[3], 1>>)

FromAngleX(q) ==
    Mat4(<<1, 0, 0, 0>>, <<0, Cos(q), Sin(q), 0>>, <<0, -Sin(q), Cos(q), 0>>, <<0, 0, 0, 1>>)

FromAngleY(q) ==
    Mat4(<<Cos(q), 0, -Sin(q), 0>>, <<0, 1, 0, 0>>, <<Sin(q), 0, Cos(q), 0>>, <<0, 0, 0, 1>>)

FromAngleZ(q) ==
    Mat4(<<Cos(q), Sin(q), 0, 0>>, <<-Sin(q), Cos(q), 0, 0>>, <<0, 0, 1, 0>>, <<0, 0, 0, 1>>)

MatMul(a, b) ==
    [c \in 1..4 |-> [r \in 1..4 |->
        a[1][r] * b[c][1] + a[2][r] * b[c][2] + a[3][r] * b[c][3] + a[4][r] * b[c][4]]]

\* faulty variant: a world matrix that forgets the camera rotation
WorldOnlyTranslation(sd) == FromTranslation(sd.camera_pos)

\* finish: translation(camera_pos) * rot_x * rot_y * rot_z
World(sd) ==
    MatMul(MatMul(MatMul(FromTranslation(sd.camera_pos), FromAngleX(sd.camera_rot[1])),
                  FromAngleY(sd.camera_rot[2])),
           FromAngleZ(sd.camera_rot[3]))

----------------------------------------------------------------------------
(* Skyboxes, materials, entries *)

\* Option<&Skybox>: a Skybox carries Option ibl, Option prefilter (either
\* CubemapType variant) and Option brdf
NoSkybox == [some |-> FALSE, ibl |-> FALSE, prefilter |-> "None", brdf |-> FALSE]

Skyboxes ==
    {[some |-> TRUE, ibl |-> TRUE, prefilter |-> "Cubemap", brdf |-> TRUE],
     [some |-> TRUE, ibl |-> FALSE, prefilter |-> "Cubemap", brdf |-> TRUE],
     [some |-> TRUE, ibl |-> TRUE, prefilter |-> "SrgbCubemap", brdf |-> TRUE],
     [some |-> TRUE, ibl |-> FALSE, prefilter |-> "SrgbCubemap", brdf |-> FALSE]}

\* IndicesSource: an index buffer or a multidraw array with an element count, or no indices
NoIndices == [kind |-> "NoIndices", n |-> 0]

\* what the callers publish: a material type with an index source
Publishable ==
    {[mat |-> "SkyboxMat", idx |-> [kind |-> "IndexBuffer", n |-> 3]],
     [mat |-> "PBR", idx |-> [kind |-> "IndexBuffer", n |-> 2]],
     [mat |-> "Basic", idx |-> [kind |-> "MultidrawArray", n |-> 2]]}

\* the camera values the setters are called with; the defaults are SceneData::default's
Cameras == {FromTranslation(<<0, 0, 1>>)}
Positions == {<<1, 2, 3>>}
Rotations == {<<1, 0, 1>>}

\* RawLights::new
NoLights == [colors |-> <<>>, positions |-> <<>>]

DefaultSceneData ==
    [camera |-> ZeroMatrix, camera_pos |-> <<0, 0, 0>>, camera_rot |-> <<0, 0, 0>>,
     skybox |-> NoSkybox, raw_lights |-> NoLights, scene_variables |-> <<>>]

\* Skybox::get_skybox().as_any().type_id()
SkyboxTypeId(skybox) == "SkyboxMat"

----------------------------------------------------------------------------
(* Material::render *)

\* faulty variant: a PBR render that unwraps the irradiance map and the BRDF LUT
\* before it matches on the prefilter map
PbrRenderUnwrapFirst(sd) ==
    IF ~sd.skybox.some THEN "panic"
    ELSE IF sd.skybox.prefilter = "None" \/ ~sd.skybox.ibl \/ ~sd.skybox.brdf THEN "panic"
    ELSE IF sd.skybox.prefilter = "SrgbCubemap" THEN "skip"
    ELSE "draw"

\* impl Material for PBR :: render.  "draw": one draw call issued; "skip":
\* returned without drawing; "panic": an unwrap of None
PbrRender(sd) ==
    IF ~sd.skybox.some THEN "panic"
    ELSE IF sd.skybox.prefilter = "None" THEN "panic"
    ELSE IF sd.skybox.prefilter = "SrgbCubemap" THEN "skip"
    ELSE IF ~sd.skybox.ibl THEN "panic"
    ELSE IF ~sd.skybox.brdf THEN "panic"
    ELSE "draw"

\* SkyboxMat and Basic draw whatever the scene data holds
MaterialRender(mat, sd) == IF mat = "PBR" THEN PbrRender(sd) ELSE "draw"

\* faulty variant: an entry of a model is drawn with the world matrix of the
\* camera position the model read when it published itself
RenderEntryAtPublish(e, sd, world) ==
    LET reads == {k \in DOMAIN lod : lod[k].first <= e.id /\ e.id <= lod[k].last}
        seen == IF reads = {} THEN sd
                ELSE [sd EXCEPT !.camera_pos = lod[CHOOSE k \in reads : TRUE].camera_pos]
    IN  [id |-> e.id, mat |-> e.mat, idx |-> e.idx, camera |-> sd.camera,
         world |-> World(seen), scene |-> sd, outcome |-> MaterialRender(e.mat, sd)]

\* RenderEntry::render: the material gets scene.camera, the world matrix and the scene data
RenderEntry(e, sd, world) ==
    [id |-> e.id, mat |-> e.mat, idx |-> e.idx, camera |-> sd.camera, world |-> world,
     scene |-> sd, outcome |-> MaterialRender(e.mat, sd)]

\* the render calls made for a sequence of entries: a panic unwinds out of finish
RECURSIVE RenderEntries(_, _, _)
RenderEntries(es, sd, world) ==
    IF es = <<>> THEN <<>>
    ELSE LET r == RenderEntry(Head(es), sd, world)
         IN  IF r.outcome = "panic" THEN <<r>>
             ELSE <<r>> \o RenderEntries(Tail(es), sd, world)

----------------------------------------------------------------------------
(* RenderScene *)

\* faulty variant: a bucket that grows at the front
PushFront(bucket, e) == <<e>> \o bucket

\* Vec::push
Push(bucket, e) == Append(bucket, e)

\* publish / publish_bounding: entries.entry(type_id).or_insert(Vec::new()), then push
Insert(es, e) ==
    [t \in DOMAIN es \cup {e.mat} |->
        IF t = e.mat THEN Push(IF t \in DOMAIN es THEN es[t] ELSE <<>>, e) ELSE es[t]]

NewEntry(mat, idx, owner) ==
    [id |-> Len(published) + 1, mat |-> mat, idx |-> idx, owner |-> owner]

\* faulty variant: a new scene starts the polygon count of the renderer again
RenderSceneNewResets(renderer) ==
    [scene_data |-> DefaultSceneData, entries |-> <<>>, renderer |-> 0]

\* RenderScene::new(renderer): default scene data, no entries, the renderer as it is
RenderSceneNew(renderer) ==
    [scene_data |-> DefaultSceneData, entries |-> <<>>, renderer |-> renderer]

BeginScene ==
    /\ phase \in {"Idle", "Finished", "Dropped"}
    /\ phase' = "Open"
    /\ \E scene \in {RenderSceneNew(polygons)} :
         /\ scene_data' = scene.scene_data
         /\ entries' = scene.entries
         /\ polygons' = scene.renderer
    /\ published' = <<>>
    /\ drawLog' = <<>>
    /\ lod' = <<>>
    /\ lastOp' = "begin_scene"
    /\ UNCHANGED <<loaderVars, iblVars, hdr, model, cmp>>

Publish ==
    /\ phase = "Open"
    /\ Len(published) < MaxPublish
    /\ \E p \in Publishable :
         LET e == NewEntry(p.mat, p.idx, "user")
         IN  /\ entries' = Insert(entries, e)
             /\ published' = Append(published, e)
    /\ lastOp' = "publish"
    /\ UNCHANGED <<polygons, phase, scene_data, drawLog, loaderVars, iblVars, auxVars>>

PublishBounding ==
    /\ phase = "Open"
    /\ Len(published) < MaxPublish
    /\ \E p \in Publishable :
         LET e == NewEntry(p.mat, p.idx, "user")
         IN  /\ entries' = Insert(entries, e)
             /\ published' = Append(published, e)
    /\ lastOp' = "publish_bounding"
    /\ UNCHANGED <<polygons, phase, scene_data, drawLog, loaderVars, iblVars, auxVars>>

SetCamera ==
    /\ phase = "Open"
    /\ \E c \in Cameras : scene_data' = [scene_data EXCEPT !.camera = c]
    /\ lastOp' = "set_camera"
    /\ UNCHANGED <<polygons, phase, entries, published, drawLog, loaderVars, iblVars, auxVars>>

SetCameraPos ==
    /\ phase = "Open"
    /\ \E p \in Positions : scene_data' = [scene_data EXCEPT !.camera_pos = p]
    /\ lastOp' = "set_camera_pos"
    /\ UNCHANGED <<polygons, phase, entries, published, drawLog, loaderVars, iblVars, auxVars>>

SetCameraRot ==
    /\ phase = "Open"
    /\ \E r \in Rotations : scene_data' = [scene_data EXCEPT !.camera_rot = r]
    /\ lastOp' = "set_camera_rot"
    /\ UNCHANGED <<polygons, phase, entries, published, drawLog, loaderVars, iblVars, auxVars>>

\* faulty variant: a skybox that does not publish itself
SkyboxRenderNothing(es, sky) == es

\* Skybox::render: scene.publish(&self.vertex_buffer, &self.index_buffer, &self.skybox)
SkyboxRender(es, sky) ==
    Insert(es, NewEntry(SkyboxTypeId(sky), NoIndices, "skybox"))

SetSkyboxSome ==
    /\ phase = "Open"
    /\ Len(published) < MaxPublish
    /\ \E s \in Skyboxes :
         /\ scene_data' = [scene_data EXCEPT !.skybox = s]
         /\ entries' = SkyboxRender(entries, s)
         /\ published' =
              IF entries' = entries THEN published
              ELSE Append(published,
                          NewEntry(SkyboxTypeId(s), NoIndices, "skybox"))
    /\ lastOp' = "set_skybox"
    /\ UNCHANGED <<polygons, phase, drawLog, loaderVars, iblVars, auxVars>>

SetSkyboxNone ==
    /\ phase = "Open"
    /\ scene_data' = [scene_data EXCEPT !.skybox = NoSkybox]
    /\ lastOp' = "set_skybox"
    /\ UNCHANGED <<polygons, phase, entries, published, drawLog, loaderVars, iblVars, auxVars>>

\* a RenderScene that goes out of scope without finish
DropScene ==
    /\ phase = "Open"
    /\ phase' = "Dropped"
    /\ entries' = <<>>
    /\ lastOp' = "drop"
    /\ UNCHANGED <<polygons, scene_data, published, drawLog, loaderVars, iblVars, auxVars>>

\* the orders in which HashMap::into_values may visit the buckets
Orders(keys) ==
    {o \in [1..Cardinality(keys) -> keys] : \A i, j \in DOMAIN o : i # j => o[i] # o[j]}

RECURSIVE Flatten(_, _)
Flatten(order, buckets) ==
    IF order = <<>> THEN <<>> ELSE buckets[Head(order)] \o Flatten(Tail(order), buckets)

\* the element count finish adds for one entry
ElementsCount(e) ==
    IF e.idx.kind \in {"IndexBuffer", "MultidrawArray"} THEN e.idx.n ELSE 0

RECURSIVE CountIndices(_)
CountIndices(es) ==
    IF es = <<>> THEN 0 ELSE ElementsCount(Head(es)) + CountIndices(Tail(es))

\* faulty variant: the skybox bucket rendered after the remaining buckets
SkyboxLast(skybox, others) == others \o skybox

\* finish renders the removed skybox bucket, then the remaining buckets
RenderOrder(skybox, others) == skybox \o others

\* faulty variant: a finish that borrows the scene instead of consuming it
StaysOpen(panicked) == IF panicked THEN "Panicked" ELSE "Open"

\* finish(mut self, ..) consumes the scene
PhaseAfterFinish(panicked) == IF panicked THEN "Panicked" ELSE "Finished"

Finish ==
    /\ phase = "Open"
    /\ LET sky == scene_data.skybox
           key == SkyboxTypeId(sky)
           skybox == IF sky.some /\ key \in DOMAIN entries THEN entries[key] ELSE <<>>
           rest == IF sky.some THEN [t \in DOMAIN entries \ {key} |-> entries[t]]
                   ELSE entries
       IN  \E world \in {World(scene_data)}, order \in Orders(DOMAIN rest) :
           \E others \in {Flatten(order, rest)} :
           \E log \in {RenderEntries(RenderOrder(skybox, others), scene_data, world)} :
           \E panicked \in {log # <<>> /\ log[Len(log)].outcome = "panic"} :
             /\ drawLog' = log
             /\ phase' = PhaseAfterFinish(panicked)
             /\ polygons' = IF panicked THEN polygons ELSE CountIndices(others) \div 3
    /\ entries' = IF phase' = "Open" THEN entries ELSE <<>>
    /\ lastOp' = "finish"
    /\ UNCHANGED <<scene_data, published, loaderVars, iblVars, auxVars>>

LoaderIdle ==
    [status |-> "idle", call |-> "none", isFile |-> FALSE, opened |-> <<>>,
     cubemap |-> [some |-> FALSE, max_level |-> 0, uploads |-> <<>>]]

\* a directory that does not exist
NoDir == [exists |-> FALSE, faces |-> {}]

\* no cubemap-writing call has been made
NoBake ==
    [op |-> "none", status |-> "none", fail |-> [kind |-> "none", level |-> 0, at |-> 0],
     source_mips |-> 0, destExisted |-> FALSE, levels |-> <<>>, files |-> <<>>,
     steps |-> <<>>]

\* load_ibl_fs has not been called
IblIdle ==
    [status |-> "idle",
     irradiance_map |-> [some |-> FALSE, max_level |-> 0, uploads |-> <<>>],
     prefilter |-> [some |-> FALSE, max_level |-> 0, uploads |-> <<>>],
     brdf |-> FALSE]

\* no HDR panorama has been decoded
HdrIdle ==
    [pc |-> "idle", call |-> "none", status |-> "none", width |-> 0, height |-> 0,
     decoded |-> <<>>, pixels |-> <<>>, w |-> 0, h |-> 0, touched |-> <<>>,
     uploaded |-> <<>>]

\* PbrModel::load_from_fs / load_from_mem: position [0; 3], rotation_matrix
\* from_angle_x(0); a new PBR material holds the model matrix from_translation([0; 3])
NewModel ==
    [position |-> <<0, 0, 0>>, rotation_matrix |-> FromAngleX(0),
     segments |-> <<FromTranslation(<<0, 0, 0>>), FromTranslation(<<0, 0, 0>>)>>,
     before |-> FromAngleX(0), call |-> "load", arg |-> <<0, 0, 0>>]

\* Material::equal has not been called
CmpIdle == [pc |-> "idle", self |-> <<>>, other |-> <<>>, result |-> FALSE]

InitAux ==
    /\ hdr = HdrIdle
    /\ model = NewModel
    /\ lod = <<>>
    /\ cmp = CmpIdle

InitIbl ==
    /\ ibl_map = NoDir
    /\ brdf_png = FALSE
    /\ bake = NoBake
    /\ ibl = IblIdle

InitRender ==
    /\ polygons = 0
    /\ phase = "Idle"
    /\ scene_data = DefaultSceneData
    /\ entries = <<>>
    /\ published = <<>>
    /\ drawLog = <<>>
    /\ lastOp = "new"

Init ==
    /\ InitRender
    /\ fs = <<>>
    /\ loader = LoaderIdle
    /\ InitIbl
    /\ InitAux

Next ==
    \/ BeginScene
    \/ Publish
    \/ PublishBounding
    \/ SetCamera
    \/ SetCameraPos
    \/ SetCameraRot
    \/ SetSkyboxSome
    \/ SetSkyboxNone
    \/ DropScene
    \/ Finish

Spec == Init /\ [][Next]_vars

----------------------------------------------------------------------------
(* CubemapLoader.  The directory holds the numeric subfolders 0..MaxLevels-1, *)
(* each absent or present with some of the six face files; an image is named  *)
(* by the subfolder and face file it was decoded from.                        *)

\* create_paths: right, left, top, bottom, front, back, in this order
FaceNames == <<"right", "left", "top", "bottom", "front", "back">>

AllFaces == {FaceNames[i] : i \in 1..6}

\* the subfolders tried: all six faces, one face missing, or none at all
LevelDirs ==
    {NoDir} \cup {[exists |-> TRUE, faces |-> AllFaces]}
            \cup {[exists |-> TRUE, faces |-> AllFaces \ {f}] : f \in AllFaces}
            \cup {[exists |-> TRUE, faces |-> {}]}

\* faulty variant: a scan that goes on while any later subfolder exists
ExistsAtOrAfter(level) ==
    \E l \in DOMAIN fs : l >= level /\ fs[l].exists

\* directory.join(level).exists()
LevelExists(level) == level \in DOMAIN fs /\ fs[level].exists

\* ImageReader::open(path)?.decode()? for the six paths in order: the images
\* read before the first failure, and whether one failed
RECURSIVE ReadImages(_, _, _)
ReadImages(level, i, images) ==
    IF i > 6 THEN [err |-> FALSE, images |-> images]
    ELSE IF level \in DOMAIN fs /\ FaceNames[i] \in fs[level].faces
         THEN ReadImages(level, i + 1, Append(images, <<level, FaceNames[i]>>))
         ELSE [err |-> TRUE, images |-> images]

\* CubeOrientation::from_array: the i-th image becomes the i-th field
FromArray(images) ==
    [right |-> images[1], left |-> images[2], top |-> images[3],
     bottom |-> images[4], front |-> images[5], back |-> images[6]]

\* impl Index<usize> for CubeOrientation (side 0..5)
Side(cube, side) ==
    CASE side = 0 -> cube.right [] side = 1 -> cube.left [] side = 2 -> cube.top
      [] side = 3 -> cube.bottom [] side = 4 -> cube.front [] OTHER -> cube.back

\* CubeOrientation::get_from_gl_enum (side counted from TEXTURE_CUBE_MAP_POSITIVE_X)
GetFromGlEnum(cube, side) ==
    CASE side = 0 -> cube.right [] side = 1 -> cube.left [] side = 2 -> cube.top
      [] side = 3 -> cube.bottom [] side = 4 -> cube.front [] side = 5 -> cube.back

\* faulty variant: every cube is uploaded to the mip level of the first one
UploadsOneLevel(cubes, layer) ==
    [u \in 1..(6 * Len(cubes)) |->
        [target |-> (u - 1) % 6, mip |-> layer,
         image |-> Side(cubes[((u - 1) \div 6) + 1], (u - 1) % 6)]]

\* load_cubemap's upload loop: layer by layer it removes the first cube and
\* uploads its six sides to TEXTURE_CUBE_MAP_POSITIVE_X + side at mip level layer
RECURSIVE Uploads(_, _)
Uploads(cubes, layer) ==
    IF cubes = <<>> THEN <<>>
    ELSE [side \in 1..6 |->
             [target |-> side - 1, mip |-> layer, image |-> Side(Head(cubes), side - 1)]]
         \o Uploads(Tail(cubes), layer + 1)

\* load_cubemap: TEXTURE_MAX_LEVEL is cubes.len() - 1
LoadCubemap(cubes) ==
    [some |-> TRUE, max_level |-> Len(cubes) - 1, uploads |-> Uploads(cubes, 0)]

NoCubemap == [some |-> FALSE, max_level |-> 0, uploads |-> <<>>]

\* load_mips_fs's while loop from `level` on: the subfolders opened, the cubes
\* pushed, and whether a `?` returned early
RECURSIVE MipsLoop(_, _, _)
MipsLoop(level, opened, cubes) ==
    IF ~LevelExists(level) THEN [err |-> FALSE, opened |-> opened, cubes |-> cubes]
    ELSE LET r == ReadImages(level, 1, <<>>)
         IN  IF r.err THEN [err |-> TRUE, opened |-> Append(opened, level), cubes |-> cubes]
             ELSE MipsLoop(level + 1, Append(opened, level),
                           Append(cubes, FromArray(r.images)))

\* load_mips_fs(directory, ..): a path that is a file is popped to its directory
LoadMipsFs ==
    /\ loader.status = "idle"
    /\ ibl.status = "idle"
    /\ \E isFile \in BOOLEAN :
       \E r \in {MipsLoop(0, <<>>, <<>>)} :
         loader' =
            IF r.err \/ Len(r.cubes) = 0
            THEN [status |-> "Err", call |-> "load_mips_fs", isFile |-> isFile,
                  opened |-> r.opened, cubemap |-> NoCubemap]
            ELSE [status |-> "Ok", call |-> "load_mips_fs", isFile |-> isFile,
                  opened |-> r.opened, cubemap |-> LoadCubemap(r.cubes)]
    /\ UNCHANGED <<fs, renderVars, iblVars, auxVars>>

\* load_from_fs(directory, ..) on the subfolder 0, or on a file inside it
LoadFromFs ==
    /\ loader.status = "idle"
    /\ ibl.status = "idle"
    /\ \E isFile \in BOOLEAN :
       \E r \in {IF isFile THEN [err |-> TRUE, images |-> <<>>]
                 ELSE ReadImages(0, 1, <<>>)} :
         loader' =
            IF r.err
            THEN [status |-> "Err", call |-> "load_from_fs", isFile |-> isFile,
                  opened |-> <<0>>, cubemap |-> NoCubemap]
            ELSE [status |-> "Ok", call |-> "load_from_fs", isFile |-> isFile,
                  opened |-> <<0>>, cubemap |-> LoadCubemap(<<FromArray(r.images)>>)]
    /\ UNCHANGED <<fs, renderVars, iblVars, auxVars>>

\* ImageReader::open(path)?.decode()? for the six paths of one directory, in
\* create_paths order; an image is named by the directory and the face file
RECURSIVE ReadFaces(_, _, _, _)
ReadFaces(dir, tag, i, images) ==
    IF i > 6 THEN [err |-> FALSE, images |-> images]
    ELSE IF dir.exists /\ FaceNames[i] \in dir.faces
         THEN ReadFaces(dir, tag, i + 1, Append(images, <<tag, FaceNames[i]>>))
         ELSE [err |-> TRUE, images |-> images]

\* faulty variant: the result of load_mips_fs is not looked at
IblStatusIgnoresPrefilter(ir, pf, tex) ==
    IF ir.err \/ ~tex THEN "Err" ELSE "Ok"

\* load_ibl_fs's three `?`: the first Err is returned
IblStatus(ir, pf, tex) ==
    IF ir.err \/ pf.err \/ Len(pf.cubes) = 0 \/ ~tex THEN "Err" ELSE "Ok"

\* load_ibl_fs(facade, directory): load_from_fs(ibl_map), load_mips_fs(prefilter),
\* TextureLoader::from_fs(brdf.png)
LoadIblFs ==
    /\ loader.status = "idle"
    /\ bake.status # "Panicked"
    /\ \E ir \in {ReadFaces(ibl_map, "ibl_map", 1, <<>>)} :
       \E pf \in {MipsLoop(0, <<>>, <<>>)} :
         ibl' =
            IF IblStatus(ir, pf, brdf_png) = "Ok"
            THEN [status |-> "Ok",
                  irradiance_map |-> LoadCubemap(<<FromArray(ir.images)>>),
                  prefilter |-> LoadCubemap(pf.cubes),
                  brdf |-> TRUE]
            ELSE [IblIdle EXCEPT !.status = "Err"]
    /\ lastOp' = "load_ibl_fs"
    /\ UNCHANGED <<polygons, phase, scene_data, entries, published, drawLog,
                   loaderVars, ibl_map, brdf_png, bake, auxVars>>

\* the directories <output>/ibl_map tried by the loader
IblMapDirs ==
    {NoDir, [exists |-> TRUE, faces |-> AllFaces],
     [exists |-> TRUE, faces |-> AllFaces \ {"top"}]}

InitLoader ==
    /\ InitRender
    /\ fs \in [0..(MaxLevels - 1) -> LevelDirs]
    /\ loader = LoaderIdle
    /\ ibl_map \in IblMapDirs
    /\ brdf_png \in BOOLEAN
    /\ bake = NoBake
    /\ ibl = IblIdle
    /\ InitAux

NextLoader ==
    \/ LoadMipsFs
    \/ LoadFromFs
    \/ LoadIblFs

SpecLoader == InitLoader /\ [][NextLoader]_vars

----------------------------------------------------------------------------
(* Cubemap writers.  A written face is recorded with the place it went to   *)
(* (a file inside the destination, a file in the destination's parent, or  *)
(* a face of a GPU cubemap; the directory prefilter/<level> or ibl_map),   *)
(* the loop index that rendered it and the camera of that render.  A failure of the GPU or of the file system is   *)
(* an input: its kind, and the level and loop index at which it strikes.   *)
(* A behaviour of SpecIbl makes one cubemap-writing call on an output      *)
(* directory left by earlier calls, and calls load_ibl_fs before or after. *)

\* CubemapRender::CAMERA_DIRECTIONS: center and up, by loop index
CAMERA_DIRECTIONS ==
    << [center |-> <<0, 0, 1>>,  up |-> <<0, 1, 0>>],
       [center |-> <<0, 0, -1>>, up |-> <<0, 1, 0>>],
       [center |-> <<0, 1, 0>>,  up |-> <<1, 0, 0>>],
       [center |-> <<0, -1, 0>>, up |-> <<-1, 0, 0>>],
       [center |-> <<-1, 0, 0>>, up |-> <<0, 1, 0>>],
       [center |-> <<1, 0, 0>>,  up |-> <<0, 1, 0>>] >>

\* CubemapRender::FILE_NAMES
FILE_NAMES == <<"right", "left", "top", "bottom", "front", "back">>

\* a file name: its stem and its extension ("" for none)
FileName(stem, ext) == [stem |-> stem, ext |-> ext]

\* Path::with_extension: the extension is replaced, or added when there is none
WithExtension(name, extension) == [name EXCEPT !.ext = extension]

\* the extensions the writers are called with; the loaders of ibl/mod.rs read "png"
Extensions == {"png", "jpg"}

NoFail == [kind |-> "none", level |-> 0, at |-> 0]

\* the loop indices at which a per-face failure is tried
FailFaces == {0, 2}

\* the failures tried on one render: directory creation, the three
\* allocations, and a draw, a read-back or a save at some face
RenderFails ==
    {NoFail}
    \cup {[kind |-> k, level |-> 0, at |-> 0] :
             k \in {"create_dir", "color", "depth", "framebuffer"}}
    \cup {[kind |-> k, level |-> 0, at |-> a] :
             k \in {"draw", "read", "save"}, a \in FailFaces}

\* faulty variant: the file names are taken in another order than the cameras
NameSwapped(index) == FILE_NAMES[6 - index]

\* the file name render gives the face of loop index `index`
NameOf(index) == FILE_NAMES[index + 1]

\* what one pass of render's loop `for index in 0..6` calls, in call order
RenderCalls ==
    <<"clear_color", "clear_depth", "gen_uniforms", "draw", "read", "save">>

\* the faces render has saved before its loop reaches index n
RenderSaved(n, dir, level, extension) ==
    [i \in 1..n |->
        [where |-> "destination", dir |-> dir, level |-> level,
         name |-> WithExtension(FileName(NameOf(i - 1), ""), extension),
         index |-> i - 1,
         center |-> CAMERA_DIRECTIONS[i].center, up |-> CAMERA_DIRECTIONS[i].up,
         calls |-> RenderCalls]]

\* CubemapRender::render into one directory: how it ends, whether the
\* directory was created, the faces it saved
Render(dir, level, extension, fail) ==
    CASE fail.kind = "create_dir" ->
            [status |-> "Panicked", created |-> FALSE, files |-> <<>>]
      [] fail.kind = "color" ->
            [status |-> "Panicked", created |-> TRUE, files |-> <<>>]
      [] fail.kind \in {"depth", "framebuffer"} ->
            [status |-> "Err", created |-> TRUE, files |-> <<>>]
      [] fail.kind \in {"draw", "save"} ->
            [status |-> "Panicked", created |-> TRUE,
             files |-> RenderSaved(fail.at, dir, level, extension)]
      [] fail.kind = "read" ->
            [status |-> "Err", created |-> TRUE,
             files |-> RenderSaved(fail.at, dir, level, extension)]
      [] OTHER ->
            [status |-> "Ok", created |-> TRUE,
             files |-> RenderSaved(6, dir, level, extension)]

\* the stems of the files among `files` that went into the directory `dir`
\* (its subfolder `level`) with the extension the loaders read
StemsWritten(files, dir, level) ==
    {files[i].name.stem : i \in {j \in DOMAIN files :
        /\ files[j].where = "destination"
        /\ files[j].dir = dir
        /\ files[j].level = level
        /\ files[j].name.ext = "png"}}

\* a directory after `files` were written
DirAfter(old, created, files, dir, level) ==
    IF created \/ old.exists
    THEN [exists |-> TRUE, faces |-> old.faces \cup StemsWritten(files, dir, level)]
    ELSE old

\* Prefilter::MAX_MIP_LEVELS
MAX_MIP_LEVELS == 5

\* the largest mip count of a source cubemap tried
MaxSourceMips == 6

\* how many numeric subfolders past the baked ones the output directory may hold
MaxStale == 1

\* the subfolders of <output>/prefilter the model follows
PrefilterLevels == 0..(MAX_MIP_LEVELS - 1 + MaxStale)

\* the levels at which a failure of the prefilter bake is tried
FailLevels == {0, 2}

\* the failures tried on a bake of several levels
LevelFails ==
    {NoFail} \cup {[f EXCEPT !.level = l] : f \in RenderFails \ {NoFail}, l \in FailLevels}

\* faulty variant: the roughness falls from 1 as the level goes up
RoughnessFalling(level, mip_levels) == <<mip_levels - level, mip_levels>>

\* roughness: level as f32 / mip_levels as f32, as numerator and denominator
Roughness(level, mip_levels) == <<level, mip_levels>>

\* let output_size = (1024, 1024) of ibl/prefilter.rs, (128, 128) of
\* ibl/specular/prefilter.rs, and the resolution of Prefilter::compute
PrefilterOutputSize == 1024
SpecularOutputSize == 128
ComputeResolution == 128

\* faulty variant: every level is rendered at the base resolution
OutputSizeFixed(output_size, level) == output_size

\* (output_size.0 as f32 * (0.5f32).powi(level)) as u32: the product of a
\* power of two below 2^24 with 0.5^level is exact, and the cast to u32 drops
\* the fraction
OutputSize(output_size, level) == output_size \div (2 ^ level)

\* the loop `for level in 0..mip_levels` of calculate_to_fs from `level` on:
\* one render per level into <destination>/<level>; `checked` says whether the
\* result of render goes through `?` (ibl/prefilter.rs) or is dropped
\* (ibl/specular/prefilter.rs)
RECURSIVE BakeLevels(_, _, _, _, _, _, _)
BakeLevels(level, mip_levels, output_size, extension, fail, checked, acc) ==
    IF level >= mip_levels THEN [acc EXCEPT !.status = "Ok"]
    ELSE LET r == Render("prefilter", level, extension,
                         IF fail.level = level THEN fail ELSE NoFail)
             next == [status |-> r.status,
                      levels |-> Append(acc.levels,
                                        [level |-> level, mip_levels |-> mip_levels,
                                         roughness |-> Roughness(level, mip_levels),
                                         size |-> OutputSize(output_size, level),
                                         created |-> r.created]),
                      files |-> acc.files \o r.files]
         IN  IF r.status = "Panicked" \/ (checked /\ r.status = "Err") THEN next
             ELSE BakeLevels(level + 1, mip_levels, output_size, extension, fail, checked,
                             next)

NoLevels == [status |-> "Ok", levels |-> <<>>, files |-> <<>>]

\* <output>/prefilter after the renders of `levels` wrote `files`
FsAfter(levels, files) ==
    [l \in DOMAIN fs |->
        IF \E i \in DOMAIN levels : levels[i].level = l
        THEN DirAfter(fs[l],
                      \E i \in DOMAIN levels : levels[i].level = l /\ levels[i].created,
                      files, "prefilter", l)
        ELSE fs[l]]

\* Prefilter::calculate_to_fs of ibl/prefilter.rs: MAX_MIP_LEVELS levels
PrefilterCalculateToFs ==
    /\ bake.op = "none"
    /\ \E m \in 1..MaxSourceMips, fail \in LevelFails :
       \E r \in {BakeLevels(0, MAX_MIP_LEVELS, PrefilterOutputSize, "png", fail, TRUE,
                              NoLevels)} :
         /\ bake' = [op |-> "Prefilter::calculate_to_fs", status |-> r.status,
                     fail |-> fail, source_mips |-> m, destExisted |-> fs[0].exists,
                     levels |-> r.levels, files |-> r.files, steps |-> <<>>]
         /\ fs' = FsAfter(r.levels, r.files)
    /\ lastOp' = "bake"
    /\ UNCHANGED <<polygons, phase, scene_data, entries, published, drawLog,
                   loader, ibl_map, brdf_png, ibl, auxVars>>

\* cubemap_mip.min(Self::MAX_MIP_LEVELS)
SpecularMipLevels(cubemap_mip) ==
    IF cubemap_mip < MAX_MIP_LEVELS THEN cubemap_mip ELSE MAX_MIP_LEVELS

\* Prefilter::calculate_to_fs of ibl/specular/prefilter.rs: it returns (), and
\* an Err of render is dropped
SpecularCalculateToFs ==
    /\ bake.op = "none"
    /\ \E m \in 1..MaxSourceMips, fail \in LevelFails :
       \E r \in {BakeLevels(0, SpecularMipLevels(m), SpecularOutputSize, "png", fail, FALSE,
                              NoLevels)} :
         /\ bake' = [op |-> "specular::Prefilter::calculate_to_fs", status |-> r.status,
                     fail |-> fail, source_mips |-> m, destExisted |-> fs[0].exists,
                     levels |-> r.levels, files |-> r.files, steps |-> <<>>]
         /\ fs' = FsAfter(r.levels, r.files)
    /\ lastOp' = "bake"
    /\ UNCHANGED <<polygons, phase, scene_data, entries, published, drawLog,
                   loader, ibl_map, brdf_png, ibl, auxVars>>

\* CubemapRender::render(.., output_directory = <output>/ibl_map, extension, ..)
CubemapRenderRender ==
    /\ bake.op = "none"
    /\ \E extension \in Extensions, fail \in RenderFails :
       \E r \in {Render("ibl_map", 0, extension, fail)} :
         /\ bake' = [op |-> "CubemapRender::render", status |-> r.status,
                     fail |-> fail, source_mips |-> 0, destExisted |-> ibl_map.exists,
                     levels |-> <<>>, files |-> r.files, steps |-> <<>>]
         /\ ibl_map' = DirAfter(ibl_map, r.created, r.files, "ibl_map", 0)
    /\ lastOp' = "bake"
    /\ UNCHANGED <<polygons, phase, scene_data, entries, published, drawLog,
                   loaderVars, brdf_png, ibl, auxVars>>

\* camera_directions of IrradianceConverter::calculate_to_fs and of
\* Equirectangle::compute_from_fs / compute_from_fs_hdr: center and up
camera_directions ==
    << [center |-> <<0, 0, 1>>,  up |-> <<0, 1, 0>>],
       [center |-> <<0, 0, -1>>, up |-> <<0, 1, 0>>],
       [center |-> <<0, 1, 0>>,  up |-> <<1, 0, 0>>],
       [center |-> <<0, -1, 0>>, up |-> <<-1, 0, 0>>],
       [center |-> <<-1, 0, 0>>, up |-> <<0, 1, 0>>],
       [center |-> <<1, 0, 0>>,  up |-> <<0, 1, 0>>] >>

\* names of IrradianceConverter::calculate_to_fs and of compute_from_fs_hdr
NamesJpg ==
    [i \in 1..6 |-> FileName(<<"right", "left", "top", "bottom", "front", "back">>[i], "jpg")]

\* names of Equirectangle::compute_from_fs
NamesBare ==
    [i \in 1..6 |-> FileName(<<"right", "left", "top", "bottom", "front", "back">>[i], "")]

\* what one pass of the loop `for index in 0..names.len()` calls, in call
\* order: IrradianceConverter::calculate_to_fs, Equirectangle::compute_from_fs
\* and Equirectangle::compute_from_fs_hdr
IrradianceCalls == <<"uniforms", "clear_color", "draw", "read", "save">>
ComputeCalls == <<"uniforms", "draw", "read", "save">>
ComputeHdrCalls == <<"uniforms", "draw", "unchecked_read", "read", "save">>

\* the failures tried on these writers (each one is an unwrap): the source
\* image, an allocation, and a draw or a save at some face
WriteFails ==
    {NoFail}
    \cup {[kind |-> k, level |-> 0, at |-> 0] : k \in {"source", "color"}}
    \cup {[kind |-> k, level |-> 0, at |-> a] : k \in {"draw", "save"}, a \in FailFaces}

\* the loop `for index in 0..names.len()` of these writers.  When the
\* destination is a directory a file name is pushed onto it and then replaced;
\* when it is not, with_file_name replaces the destination's own last
\* component, so the file goes to the destination's parent.
WriteFaces(names, calls, isDir, extension, fail) ==
    LET saved(n) ==
            [i \in 1..n |->
                [where |-> IF isDir THEN "destination" ELSE "parent",
                 dir |-> "ibl_map", level |-> 0,
                 name |-> WithExtension(names[i], extension),
                 index |-> i - 1,
                 center |-> camera_directions[i].center,
                 up |-> camera_directions[i].up,
                 calls |-> calls]]
    IN  CASE fail.kind = "none" -> [status |-> "Ok", files |-> saved(6)]
          [] fail.kind \in {"draw", "save"} ->
                [status |-> "Panicked", files |-> saved(fail.at)]
          [] OTHER -> [status |-> "Panicked", files |-> <<>>]

\* what one of these writers leaves with destination_dir = <output>/ibl_map;
\* none of them creates its destination
WriteToFs(op, names, calls, extension, fail) ==
    \E r \in {WriteFaces(names, calls, ibl_map.exists, extension, fail)} :
      /\ bake' = [op |-> op, status |-> r.status,
                  fail |-> fail, source_mips |-> 0, destExisted |-> ibl_map.exists,
                  levels |-> <<>>, files |-> r.files, steps |-> <<>>]
      /\ ibl_map' = DirAfter(ibl_map, FALSE, r.files, "ibl_map", 0)

\* IrradianceConverter::calculate_to_fs (it reads no source image)
IrradianceCalculateToFs ==
    /\ bake.op = "none"
    /\ \E extension \in Extensions, fail \in {f \in WriteFails : f.kind # "source"} :
         WriteToFs("IrradianceConverter::calculate_to_fs", NamesJpg, IrradianceCalls,
                   extension, fail)
    /\ lastOp' = "bake"
    /\ UNCHANGED <<polygons, phase, scene_data, entries, published, drawLog,
                   loaderVars, brdf_png, ibl, auxVars>>

\* Equirectangle::compute_from_fs
ComputeFromFs ==
    /\ bake.op = "none"
    /\ \E extension \in Extensions, fail \in WriteFails :
         WriteToFs("Equirectangle::compute_from_fs", NamesBare, ComputeCalls, extension, fail)
    /\ lastOp' = "bake"
    /\ UNCHANGED <<polygons, phase, scene_data, entries, published, drawLog,
                   loaderVars, brdf_png, ibl, auxVars>>

\* Equirectangle::compute_from_fs_hdr
ComputeFromFsHdr ==
    /\ bake.op = "none"
    /\ \E extension \in Extensions, fail \in WriteFails :
         WriteToFs("Equirectangle::compute_from_fs_hdr", NamesJpg, ComputeHdrCalls,
                   extension, fail)
    /\ lastOp' = "bake"
    /\ UNCHANGED <<polygons, phase, scene_data, entries, published, drawLog,
                   loaderVars, brdf_png, ibl, auxVars>>

\* layers of EquiRectCubemap::compute and of Prefilter::compute
layers ==
    <<"PositiveX", "NegativeX", "PositiveY", "NegativeY", "PositiveZ", "NegativeZ">>

\* EquiRectCubemap::directions and Prefilter::camera_directions of src/src/shaders
directions ==
    << [center |-> <<1, 0, 0>>,  up |-> <<0, -1, 0>>],
       [center |-> <<-1, 0, 0>>, up |-> <<0, -1, 0>>],
       [center |-> <<0, 1, 0>>,  up |-> <<0, 0, 1>>],
       [center |-> <<0, -1, 0>>, up |-> <<0, 0, -1>>],
       [center |-> <<0, 0, 1>>,  up |-> <<0, -1, 0>>],
       [center |-> <<0, 0, -1>>, up |-> <<0, -1, 0>>] >>

\* the face `layer` of mip level `level` of a GPU cubemap, drawn with camera i
GpuFace(i, level, calls) ==
    [where |-> "gpu", dir |-> "gpu", level |-> level,
     name |-> FileName(layers[i], ""), index |-> i - 1,
     center |-> directions[i].center, up |-> directions[i].up, calls |-> calls]

\* what EquiRectCubemap::compute calls for one layer, and Prefilter::compute
\* for one mip level of one layer
EquiRectCalls == <<"clear_color_and_depth", "uniforms", "draw">>
PrefilterComputeCalls == <<"clear_depth", "uniforms", "draw">>

\* the failures tried on the GPU writers (each one is an unwrap)
GpuFails ==
    {NoFail, [kind |-> "color", level |-> 0, at |-> 0]}
    \cup {[kind |-> "draw", level |-> l, at |-> a] : l \in FailLevels, a \in FailFaces}

\* EquiRectCubemap::compute: face i of the main level is drawn with directions[i]
EquiRectCompute ==
    /\ bake.op = "none"
    /\ \E fail \in {f \in GpuFails : f.level = 0} :
         bake' = [op |-> "EquiRectCubemap::compute",
                  status |-> IF fail.kind = "none" THEN "Ok" ELSE "Panicked",
                  fail |-> fail, source_mips |-> 0, destExisted |-> FALSE,
                  levels |-> <<>>,
                  files |-> [i \in 1..(CASE fail.kind = "none" -> 6
                                         [] fail.kind = "draw" -> fail.at
                                         [] OTHER -> 0) |-> GpuFace(i, 0, EquiRectCalls)],
                  steps |-> <<>>]
    /\ lastOp' = "bake"
    /\ UNCHANGED <<polygons, phase, scene_data, entries, published, drawLog,
                   loaderVars, ibl_map, brdf_png, ibl, auxVars>>

\* MipmapsOption::EmptyMipmapsMax(4) of Prefilter::compute
EmptyMipmapsMax == 4

\* cubemap.get_mipmap_levels() of the cubemap Prefilter::compute allocates
GetMipmapLevels == EmptyMipmapsMax + 1

\* roughness of Prefilter::compute: mipmap_level / (get_mipmap_levels() - 1)
RoughnessCompute(mipmap_level) == <<mipmap_level, GetMipmapLevels - 1>>

\* Prefilter::compute of src/src/shaders/prefilter: for each layer, for each
\* mip level, one draw with that level's roughness
PrefilterCompute ==
    /\ bake.op = "none"
    /\ \E fail \in GpuFails :
       \E n \in {CASE fail.kind = "none" -> 6 * GetMipmapLevels
                   [] fail.kind = "draw" -> fail.at * GetMipmapLevels + fail.level
                   [] OTHER -> 0} :
         bake' = [op |-> "shaders::Prefilter::compute",
                  status |-> IF fail.kind = "none" THEN "Ok" ELSE "Panicked",
                  fail |-> fail, source_mips |-> 0, destExisted |-> FALSE,
                  levels |-> [k \in 1..n |->
                                 [level |-> (k - 1) % GetMipmapLevels,
                                  mip_levels |-> GetMipmapLevels,
                                  roughness |-> RoughnessCompute((k - 1) % GetMipmapLevels),
                                  size |-> OutputSize(ComputeResolution,
                                                      (k - 1) % GetMipmapLevels),
                                  created |-> FALSE]],
                  files |-> [k \in 1..n |->
                                GpuFace(((k - 1) \div GetMipmapLevels) + 1,
                                        (k - 1) % GetMipmapLevels,
                                        PrefilterComputeCalls)],
                  steps |-> <<>>]
    /\ lastOp' = "bake"
    /\ UNCHANGED <<polygons, phase, scene_data, entries, published, drawLog,
                   loaderVars, ibl_map, brdf_png, ibl, auxVars>>

\* the failures tried on BRDF::calculate_to_fs (each one goes through `?`)
BrdfFails ==
    {NoFail} \cup {[kind |-> k, level |-> 0, at |-> 0] : k \in {"color", "draw", "save"}}

\* BRDF::calculate_to_fs: how it ends
Brdf(fail) == IF fail.kind = "none" THEN "Ok" ELSE "Err"

\* BRDF::calculate_to_fs(facade, <output>/brdf.png)
BrdfCalculateToFs ==
    /\ bake.op = "none"
    /\ \E fail \in BrdfFails :
         /\ bake' = [op |-> "BRDF::calculate_to_fs", status |-> Brdf(fail),
                     fail |-> fail, source_mips |-> 0, destExisted |-> FALSE,
                     levels |-> <<>>, files |-> <<>>, steps |-> <<>>]
         /\ brdf_png' = (brdf_png \/ Brdf(fail) = "Ok")
    /\ lastOp' = "bake"
    /\ UNCHANGED <<polygons, phase, scene_data, entries, published, drawLog,
                   loaderVars, ibl_map, ibl, auxVars>>

\* the failures tried on generate_ibl_from_cubemap: the step they strike and
\* what fails there.  The irradiance step is called through `?`, so its result
\* can be an Err ("err") besides the panics of calculate_to_fs.
GenFails ==
    {[step |-> "none", fail |-> NoFail]}
    \cup {[step |-> "prefilter", fail |-> f] :
             f \in {g \in LevelFails : g.kind \in {"color", "depth", "read"} /\ g.at \in {0, 2}}}
    \cup {[step |-> "irradiance", fail |-> [kind |-> k, level |-> 0, at |-> 2]] :
             k \in {"err", "draw"}}
    \cup {[step |-> "brdf", fail |-> [kind |-> "draw", level |-> 0, at |-> 0]]}

\* faulty variant: the result of a step is dropped
QuestionDropped(status) == FALSE

\* the `?` operator: an Err returns from the caller
Question(status) == status = "Err"

\* the calls generate_ibl_from_cubemap makes, given what each of the three
\* would return: the steps that ran, and how the function ends
Generate(pf, ir, br) ==
    IF pf = "Panicked" \/ Question(pf)
    THEN [status |-> pf, steps |-> <<[name |-> "prefilter", status |-> pf]>>]
    ELSE IF ir = "Panicked" \/ Question(ir)
    THEN [status |-> ir, steps |-> <<[name |-> "prefilter", status |-> pf],
                                     [name |-> "irradiance", status |-> ir]>>]
    ELSE [status |-> IF Question(br) THEN br ELSE "Ok",
          steps |-> <<[name |-> "prefilter", status |-> pf],
                      [name |-> "irradiance", status |-> ir],
                      [name |-> "brdf", status |-> br]>>]

\* generate_ibl_from_cubemap(facade, cubemap, output_directory, ir, prefilter, brdf)
GenerateIblFromCubemap ==
    /\ bake.op = "none"
    /\ \E m \in 1..MaxSourceMips, g \in GenFails :
       \E pf \in {BakeLevels(0, MAX_MIP_LEVELS, PrefilterOutputSize, "png",
                             IF g.step = "prefilter" THEN g.fail ELSE NoFail,
                             TRUE, NoLevels)} :
       \E ir \in {IF g.step = "irradiance" /\ g.fail.kind = "err"
                  THEN [status |-> "Err", files |-> <<>>]
                  ELSE WriteFaces(NamesJpg, IrradianceCalls, ibl_map.exists, "png",
                                  IF g.step = "irradiance" THEN g.fail ELSE NoFail)} :
       \E br \in {Brdf(IF g.step = "brdf" THEN g.fail ELSE NoFail)} :
       \E r \in {Generate(pf.status, ir.status, br)} :
         /\ bake' = [op |-> "generate_ibl_from_cubemap", status |-> r.status,
                     fail |-> g.fail, source_mips |-> m, destExisted |-> fs[0].exists,
                     levels |-> pf.levels,
                     files |-> IF Len(r.steps) >= 2 THEN pf.files \o ir.files ELSE pf.files,
                     steps |-> r.steps]
         /\ fs' = FsAfter(pf.levels, pf.files)
         /\ ibl_map' = IF Len(r.steps) >= 2
                       THEN DirAfter(ibl_map, FALSE, ir.files, "ibl_map", 0)
                       ELSE ibl_map
         /\ brdf_png' = (brdf_png \/ (Len(r.steps) = 3 /\ br = "Ok"))
    /\ lastOp' = "bake"
    /\ UNCHANGED <<polygons, phase, scene_data, entries, published, drawLog, loader, ibl,
                   auxVars>>

\* <output>/prefilter before the first call: empty, or the subfolders 0..n-1
\* of an earlier bake
InitFs ==
    {[l \in PrefilterLevels |->
         IF l < n THEN [exists |-> TRUE, faces |-> AllFaces] ELSE NoDir] :
     n \in 0..(MAX_MIP_LEVELS + MaxStale)}

InitSpecIbl ==
    /\ InitRender
    /\ loader = LoaderIdle
    /\ fs \in InitFs
    /\ ibl_map \in {NoDir, [exists |-> TRUE, faces |-> AllFaces]}
    /\ brdf_png \in BOOLEAN
    /\ bake = NoBake
    /\ ibl = IblIdle
    /\ InitAux

NextIbl ==
    \/ CubemapRenderRender
    \/ PrefilterCalculateToFs
    \/ SpecularCalculateToFs
    \/ PrefilterCompute
    \/ IrradianceCalculateToFs
    \/ ComputeFromFs
    \/ ComputeFromFsHdr
    \/ EquiRectCompute
    \/ BrdfCalculateToFs
    \/ GenerateIblFromCubemap
    \/ LoadIblFs

SpecIbl == InitSpecIbl /\ [][NextIbl]_vars

----------------------------------------------------------------------------
(* HDR panoramas: TextureLoader::from_fs_hdr, EquiRectCubemap::compute and  *)
(* Equirectangle::compute_from_fs_hdr.  A decoded pixel is the Rgb triple   *)
(* <<x, y, 0>> of the column and row it was decoded at; the pixel buffer is *)
(* row major, 0-based in the code and 1-based here.                         *)

\* the largest panorama tried
MaxWidth == 5
MaxHeight == 4

\* read_image_hdr: the pixels, row after row
Decoded(width, height) ==
    [i \in 1..(width * height) |-> <<(i - 1) % width, (i - 1) \div width, 0>>]

\* flat_map(|pixel| pixel.0): the channels of all pixels in one buffer
FlatMap(pixels) ==
    [k \in 1..(3 * Len(pixels)) |-> pixels[((k - 1) \div 3) + 1][((k - 1) % 3) + 1]]

\* par_chunks_exact(3).map(|chunk| (chunk[0], chunk[1], chunk[2])), and the
\* texels RawImage2d::from_raw_rgb reads from a flat buffer
ChunksExact3(buffer) ==
    [i \in 1..(Len(buffer) \div 3) |-> <<buffer[3 * i - 2], buffer[3 * i - 1], buffer[3 * i]>>]

\* faulty variant: the swap loop runs over every column
SwapColumnsAll(width) == width

\* for w in 0..width / 2
SwapColumns(width) == width \div 2

\* index and index2 of the loop body
Index(w, h, width) == w + (h * width)
Index2(w, h, width) == (h * width) + (width - w - 1)

\* the loop body: pixels[index] and pixels[index2] change places
SwapPixels(pixels, index, index2) ==
    [pixels EXCEPT ![index + 1] = pixels[index2 + 1], ![index2 + 1] = pixels[index + 1]]

\* the failures of from_fs_hdr before the loop (each one goes through `?`)
HdrFails == {"none", "open", "decode", "read"}

\* from_fs_hdr up to the loop: File::open, HdrDecoder::new, read_image_hdr
FromFsHdrDecode ==
    /\ hdr.pc = "idle"
    /\ \E width \in 1..MaxWidth, height \in 1..MaxHeight, fail \in HdrFails :
         hdr' = IF fail # "none"
                THEN [hdr EXCEPT !.pc = "done", !.call = "TextureLoader::from_fs_hdr",
                                 !.status = "Err"]
                ELSE [pc |-> "mirror", call |-> "TextureLoader::from_fs_hdr",
                      status |-> "none", width |-> width, height |-> height,
                      decoded |-> Decoded(width, height),
                      pixels |-> Decoded(width, height), w |-> 0, h |-> 0,
                      touched |-> [i \in 1..(width * height) |-> 0],
                      uploaded |-> <<>>]
    /\ UNCHANGED <<renderVars, loaderVars, iblVars, model, lod, cmp>>

\* one pass of the inner loop `for h in 0..height` of from_fs_hdr
FromFsHdrSwap ==
    /\ hdr.pc = "mirror"
    /\ hdr.w < SwapColumns(hdr.width)
    /\ LET index == Index(hdr.w, hdr.h, hdr.width)
           index2 == Index2(hdr.w, hdr.h, hdr.width)
           last == hdr.h + 1 = hdr.height
       IN  hdr' = [hdr EXCEPT
                     !.pixels = SwapPixels(hdr.pixels, index, index2),
                     !.touched = [i \in DOMAIN hdr.touched |->
                                     IF i \in {index + 1, index2 + 1}
                                     THEN hdr.touched[i] + 1 ELSE hdr.touched[i]],
                     !.h = IF last THEN 0 ELSE hdr.h + 1,
                     !.w = IF last THEN hdr.w + 1 ELSE hdr.w]
    /\ UNCHANGED <<renderVars, loaderVars, iblVars, model, lod, cmp>>

\* from_fs_hdr after the loop: the pixels are flattened, from_memory_f32
\* groups them again and uploads them (Texture2d::with_format goes through `?`)
FromFsHdrUpload ==
    /\ hdr.pc = "mirror"
    /\ hdr.w >= SwapColumns(hdr.width)
    /\ \E ok \in BOOLEAN :
         hdr' = IF ok
                THEN [hdr EXCEPT !.pc = "uploaded", !.status = "Ok",
                                 !.uploaded = ChunksExact3(FlatMap(hdr.pixels))]
                ELSE [hdr EXCEPT !.pc = "done", !.status = "Err"]
    /\ UNCHANGED <<renderVars, loaderVars, iblVars, model, lod, cmp>>

\* EquiRectCubemap::compute(facade, &texture, resolution) on the texture
\* from_fs_hdr returned: the texture is sampled as it is
EquiRectFromTexture ==
    /\ hdr.pc = "uploaded"
    /\ hdr' = [hdr EXCEPT !.pc = "cubemap", !.call = "EquiRectCubemap::compute"]
    /\ UNCHANGED <<renderVars, loaderVars, iblVars, model, lod, cmp>>

\* Equirectangle::compute_from_fs_hdr: the panorama is decoded, flattened and
\* uploaded with RawImage2d::from_raw_rgb and Texture2d::new, then drawn to the
\* six faces (every failure is an unwrap)
ComputeFromFsHdrSource ==
    /\ hdr.pc = "idle"
    /\ \E width \in 1..MaxWidth, height \in 1..MaxHeight, fail \in HdrFails :
         hdr' = IF fail # "none"
                THEN [hdr EXCEPT !.pc = "done",
                                 !.call = "Equirectangle::compute_from_fs_hdr",
                                 !.status = "Panicked"]
                ELSE [pc |-> "cubemap", call |-> "Equirectangle::compute_from_fs_hdr",
                      status |-> "Ok", width |-> width, height |-> height,
                      decoded |-> Decoded(width, height),
                      pixels |-> Decoded(width, height), w |-> 0, h |-> 0,
                      touched |-> [i \in 1..(width * height) |-> 0],
                      uploaded |-> ChunksExact3(FlatMap(Decoded(width, height)))]
    /\ UNCHANGED <<renderVars, loaderVars, iblVars, model, lod, cmp>>

NextHdr ==
    \/ FromFsHdrDecode
    \/ FromFsHdrSwap
    \/ FromFsHdrUpload
    \/ EquiRectFromTexture
    \/ ComputeFromFsHdrSource

SpecHdr == Init /\ [][NextHdr]_vars

----------------------------------------------------------------------------
(* PbrModel: the position, the rotation matrix and the model matrix held by *)
(* the material of each segment, under the mutators of src/src/pbr_model.rs *)

\* the farthest the model is moved along an axis
MaxCoord == 2

\* what the mutators are called with (angles in quarter turns)
Moves == {<<1, 0, 0>>}
Translations == {<<0, 0, 0>>, <<0, MaxCoord, 0>>}
RotationArgs == {<<1, 0, 0>>, <<0, 0, 1>>}
EulerArgs == {<<1, 0, 0>>, <<0, 1, 0>>}
MatrixArgs == {FromAngleY(1)}
AxisAngleArgs == {[axis |-> <<0, 1, 0>>, angle |-> 1], [axis |-> <<0, 0, 1>>, angle |-> 2]}

\* Matrix4::from_axis_angle(axis, angle) of cgmath, for a unit axis
FromAxisAngle(axis, q) ==
    LET c == Cos(q)
        s == Sin(q)
        x == axis[1]
        y == axis[2]
        z == axis[3]
    IN  Mat4(<<c + x * x * (1 - c), x * y * (1 - c) + z * s, x * z * (1 - c) - y * s, 0>>,
             <<x * y * (1 - c) - z * s, c + y * y * (1 - c), y * z * (1 - c) + x * s, 0>>,
             <<x * z * (1 - c) + y * s, y * z * (1 - c) - x * s, c + z * z * (1 - c), 0>>,
             <<0, 0, 0, 1>>)

\* from_angle_x(rotation.x) * from_angle_y(rotation.y) * from_angle_z(rotation.z)
RotationXYZ(rotation) ==
    MatMul(MatMul(FromAngleX(rotation[1]), FromAngleY(rotation[2])), FromAngleZ(rotation[3]))

\* from_angle_z(yaw) * from_angle_y(pitch) * from_angle_x(roll)
RotationZYX(yaw, pitch, roll) ==
    MatMul(MatMul(FromAngleZ(yaw), FromAngleY(pitch)), FromAngleX(roll))

\* the loop of build_matrix and of the two setters that bypass it:
\* segment.build_matrix(model) for every segment
SetSegments(segments, m) == [i \in DOMAIN segments |-> m]

\* PbrModel::build_matrix on the fields `position` and `rotation_matrix`
BuildMatrix(position, rotation_matrix, segments) ==
    SetSegments(segments, MatMul(FromTranslation(position), rotation_matrix))

\* a mutator call that leaves `position` and `rotation_matrix` as given
Called(name, arg, position, rotation_matrix, segments) ==
    [position |-> position, rotation_matrix |-> rotation_matrix, segments |-> segments,
     before |-> model.rotation_matrix, call |-> name, arg |-> arg]

PbrBuildMatrix ==
    /\ model' = Called("build_matrix", <<0, 0, 0>>, model.position, model.rotation_matrix,
                       BuildMatrix(model.position, model.rotation_matrix, model.segments))
    /\ UNCHANGED <<renderVars, loaderVars, iblVars, hdr, lod, cmp>>

RelativeMove ==
    /\ \E p \in Moves :
         /\ model.position[1] + p[1] <= MaxCoord
         /\ \E position \in {<<model.position[1] + p[1], model.position[2] + p[2],
                               model.position[3] + p[3]>>} :
              model' = Called("relative_move", p, position, model.rotation_matrix,
                              BuildMatrix(position, model.rotation_matrix, model.segments))
    /\ UNCHANGED <<renderVars, loaderVars, iblVars, hdr, lod, cmp>>

SetTranslation ==
    /\ \E p \in Translations :
         model' = Called("set_translation", p, p, model.rotation_matrix,
                         BuildMatrix(p, model.rotation_matrix, model.segments))
    /\ UNCHANGED <<renderVars, loaderVars, iblVars, hdr, lod, cmp>>

RelativeRotate ==
    /\ \E r \in RotationArgs :
         model' = Called("relative_rotate", r, model.position, RotationXYZ(r),
                         BuildMatrix(model.position, RotationXYZ(r), model.segments))
    /\ UNCHANGED <<renderVars, loaderVars, iblVars, hdr, lod, cmp>>

SetRotation ==
    /\ \E r \in RotationArgs :
         model' = Called("set_rotation", r, model.position, RotationXYZ(r),
                         BuildMatrix(model.position, RotationXYZ(r), model.segments))
    /\ UNCHANGED <<renderVars, loaderVars, iblVars, hdr, lod, cmp>>

\* relative_rotate_euler on a model whose rotation matrix is `rotation_matrix`
RotateEuler(rotation_matrix, e) == MatMul(rotation_matrix, RotationZYX(e[1], e[2], e[3]))

SetRotationEuler ==
    /\ \E e \in EulerArgs :
       \E rot \in {RotateEuler(FromAngleZ(0), e)} :
         model' = Called("set_rotation_euler", e, model.position, rot,
                         BuildMatrix(model.position, rot, model.segments))
    /\ UNCHANGED <<renderVars, loaderVars, iblVars, hdr, lod, cmp>>

RelativeRotateEuler ==
    /\ \E e \in EulerArgs :
       \E rot \in {RotateEuler(model.rotation_matrix, e)} :
         model' = Called("relative_rotate_euler", e, model.position, rot,
                         BuildMatrix(model.position, rot, model.segments))
    /\ UNCHANGED <<renderVars, loaderVars, iblVars, hdr, lod, cmp>>

\* set_rotation_matrix: the segments get translation * mat; rotation_matrix is not assigned
SetRotationMatrix ==
    /\ \E mat \in MatrixArgs :
         model' = Called("set_rotation_matrix", <<0, 1, 0>>, model.position,
                         model.rotation_matrix,
                         SetSegments(model.segments,
                                     MatMul(FromTranslation(model.position), mat)))
    /\ UNCHANGED <<renderVars, loaderVars, iblVars, hdr, lod, cmp>>

\* set_rotation_axis_angle: as set_rotation_matrix, with from_axis_angle(axis, angle)
SetRotationAxisAngle ==
    /\ \E a \in AxisAngleArgs :
         model' = Called("set_rotation_axis_angle", a.axis, model.position,
                         model.rotation_matrix,
                         SetSegments(model.segments,
                                     MatMul(FromTranslation(model.position),
                                            FromAxisAngle(a.axis, a.angle))))
    /\ UNCHANGED <<renderVars, loaderVars, iblVars, hdr, lod, cmp>>

NextModel ==
    \/ PbrBuildMatrix
    \/ RelativeMove
    \/ SetTranslation
    \/ RelativeRotate
    \/ SetRotation
    \/ SetRotationEuler
    \/ RelativeRotateEuler
    \/ SetRotationMatrix
    \/ SetRotationAxisAngle

SpecModel == Init /\ [][NextModel]_vars

----------------------------------------------------------------------------
(* Material::equal and same_material.  A material is its concrete type with *)
(* the fields its render turns into uniforms.                               *)

\* MaterialParams of Basic, as the shininess alone
ParamsTried == {32, 64}

\* light positions and colors, colors of Simple, cubemaps of SkyboxMat, PBR parameters
LightsTried == {<<0, 0, 0>>, <<1, 1, 1>>}
CubemapsTried == {"day", "night"}

Materials ==
    {[type |-> "Basic", light_pos |-> p, light_color |-> <<1, 1, 1>>, basic_params |-> b] :
         p \in LightsTried, b \in ParamsTried}
    \cup {[type |-> "SkyboxMat", skybox |-> c] : c \in CubemapsTried}
    \cup {[type |-> "PBR", light_pos |-> p, light_color |-> <<1, 1, 1>>, pbr_params |-> b] :
             p \in LightsTried, b \in ParamsTried}
    \cup {[type |-> "Simple", color |-> c] : c \in LightsTried}

\* material.downcast_ref::<Self>() is Some
DowncastRef(self, material) == material.type = self.type

\* impl Material for Basic / SkyboxMat / PBR / Simple :: equal
Equal(self, material) ==
    CASE self.type = "PBR" -> FALSE
      [] ~DowncastRef(self, material) -> FALSE
      [] self.type = "Basic" ->
            material.light_pos = self.light_pos /\ material.light_color = self.light_color
      [] self.type = "SkyboxMat" -> TRUE
      [] OTHER -> material.color = self.color

\* Material::same_material: material.is::<Self>()
SameMaterial(self, material) == material.type = self.type

EqualCall ==
    /\ cmp.pc = "idle"
    /\ \E self \in Materials, other \in Materials :
         cmp' = [pc |-> "equal", self |-> self, other |-> other,
                 result |-> Equal(self, other)]
    /\ UNCHANGED <<renderVars, loaderVars, iblVars, hdr, model, lod>>

SameMaterialCall ==
    /\ cmp.pc = "idle"
    /\ \E self \in Materials, other \in Materials :
         cmp' = [pc |-> "same_material", self |-> self, other |-> other,
                 result |-> SameMaterial(self, other)]
    /\ UNCHANGED <<renderVars, loaderVars, iblVars, hdr, model, lod>>

NextEqual ==
    \/ EqualCall
    \/ SameMaterialCall

SpecEqual == Init /\ [][NextEqual]_vars

----------------------------------------------------------------------------
(* Frames of a scene that holds lights and scene variables and to which a   *)
(* PbrModel and the skybox publish themselves.                              *)

\* the most lights added to one scene
MaxLights == 1

\* what add_light and add_scene_variable are called with
LightsAdded == {[position |-> <<0, 4, 0>>, color |-> <<1, 1, 1>>]}
VariablesAdded == {[type_id |-> "f32", data |-> 1]}

\* RawLights::add_light
AddLightTo(raw_lights, position, color) ==
    [colors |-> Append(raw_lights.colors, color),
     positions |-> Append(raw_lights.positions, position)]

\* scene.get_scene_data_mut().get_raw_lights_mut().add_light(position, color)
AddLight ==
    /\ phase = "Open"
    /\ Len(scene_data.raw_lights.positions) < MaxLights
    /\ \E l \in LightsAdded :
         scene_data' = [scene_data EXCEPT
                          !.raw_lights = AddLightTo(scene_data.raw_lights, l.position, l.color)]
    /\ lastOp' = "add_light"
    /\ UNCHANGED <<polygons, phase, entries, published, drawLog, loaderVars, iblVars,
                   auxVars>>

\* HashMap::insert(TypeId::of::<T>(), Box::new(data))
InsertVariable(scene_variables, type_id, data) ==
    [t \in DOMAIN scene_variables \cup {type_id} |->
        IF t = type_id THEN data ELSE scene_variables[t]]

\* scene.get_scene_data_mut().add_scene_variable(data)
AddSceneVariable ==
    /\ phase = "Open"
    /\ \E v \in VariablesAdded :
         scene_data' = [scene_data EXCEPT
                          !.scene_variables =
                              InsertVariable(scene_data.scene_variables, v.type_id, v.data)]
    /\ lastOp' = "add_scene_variable"
    /\ UNCHANGED <<polygons, phase, entries, published, drawLog, loaderVars, iblVars,
                   auxVars>>

\* the index buffer of a segment of the model
SegmentIndices == [kind |-> "IndexBuffer", n |-> 3]

\* PbrModelSegment::render for the segments from i on: scene.publish(vertex
\* buffer, index buffer, material), the entries getting the ids from `id` on
RECURSIVE RenderSegments(_, _, _, _)
RenderSegments(segments, i, id, acc) ==
    IF i > Len(segments) THEN acc
    ELSE LET e == [id |-> id, mat |-> "PBR", idx |-> SegmentIndices, owner |-> "model"]
         IN  RenderSegments(segments, i + 1, id + 1,
                            [entries |-> Insert(acc.entries, e),
                             published |-> Append(acc.published, e)])

\* PbrModel::render(scene): the distance of the model to the camera position
\* of the scene is computed (and used for nothing), then every segment
\* publishes itself
PbrModelRender ==
    /\ phase = "Open"
    /\ Len(published) + Len(model.segments) <= MaxPublish
    /\ \E r \in {RenderSegments(model.segments, 1, Len(published) + 1,
                                [entries |-> entries, published |-> published])} :
         /\ entries' = r.entries
         /\ published' = r.published
    /\ lod' = Append(lod, [first |-> Len(published) + 1,
                           last |-> Len(published) + Len(model.segments),
                           camera_pos |-> scene_data.camera_pos,
                           position |-> model.position])
    /\ lastOp' = "model_render"
    /\ UNCHANGED <<polygons, phase, scene_data, drawLog, loaderVars, iblVars, hdr, model,
                   cmp>>

NextFrame ==
    \/ BeginScene
    \/ PbrModelRender
    \/ SetCamera
    \/ SetCameraPos
    \/ SetCameraRot
    \/ SetSkyboxSome
    \/ SetSkyboxNone
    \/ AddLight
    \/ AddSceneVariable
    \/ DropScene
    \/ Finish

SpecFrame == Init /\ [][NextFrame]_vars

----------------------------------------------------------------------------
(* Properties of the render queue *)

SceneOps ==
    {"publish", "publish_bounding", "set_camera", "set_camera_pos", "set_camera_rot",
     "set_skybox", "finish"}

\* the scene has been handed to finish (which returned, or panicked on the way)
FinishCalled == phase \in {"Finished", "Panicked"}

\* C1: the entries of one material type are rendered contiguously and in the
\* order of their publication
SameTypeContiguousInOrder ==
    \A i, j \in DOMAIN drawLog :
        (i < j /\ drawLog[i].mat = drawLog[j].mat) =>
            /\ drawLog[i].id < drawLog[j].id
            /\ \A k \in i..j : drawLog[k].mat = drawLog[i].mat

\* A, B, A2 were published and all three were rendered
WitnessSameTypeContiguous ==
    /\ phase = "Finished"
    /\ Len(published) = 3
    /\ Len(drawLog) = 3
    /\ published[1].mat = published[3].mat
    /\ published[1].mat # published[2].mat

\* C2: with a skybox set at finish, every entry of the skybox material's bucket
\* is rendered before any entry of another material type
SkyboxBucketFirst ==
    (FinishCalled /\ scene_data.skybox.some) =>
        \A i, j \in DOMAIN drawLog :
            (i < j /\ drawLog[j].mat = SkyboxTypeId(scene_data.skybox)) =>
                drawLog[i].mat = SkyboxTypeId(scene_data.skybox)

\* a skybox-type entry published after another type's entry was rendered before it
WitnessSkyboxBucketFirst ==
    /\ phase = "Finished"
    /\ scene_data.skybox.some
    /\ Len(published) = 3
    /\ published[1].mat = "Basic"
    /\ published[3].mat = "SkyboxMat"
    /\ Len(drawLog) = 3
    /\ drawLog[1].mat = "SkyboxMat"
    /\ drawLog[3].mat = "Basic"

\* C3: finish renders every published entry exactly once
EveryPublishedRenderedOnce ==
    FinishCalled =>
        \A n \in 1..Len(published) :
            Cardinality({i \in DOMAIN drawLog : drawLog[i].id = n}) = 1

\* what does hold of C3: no entry is rendered twice, and none is dropped by a
\* finish that returns
RenderedOnceWhenFinishReturns ==
    /\ \A n \in 1..Len(published) :
           Cardinality({i \in DOMAIN drawLog : drawLog[i].id = n}) <= 1
    /\ phase = "Finished" =>
           \A n \in 1..Len(published) : \E i \in DOMAIN drawLog : drawLog[i].id = n

\* C4: every entry one finish renders gets the same world matrix,
\* translation(camera_pos) * rot_x * rot_y * rot_z of the stored camera data,
\* the same camera matrix and the same scene data
OneWorldPerFinish ==
    \A i \in DOMAIN drawLog :
        /\ drawLog[i].world =
               MatMul(FromTranslation(scene_data.camera_pos),
                      MatMul(FromAngleX(scene_data.camera_rot[1]),
                             MatMul(FromAngleY(scene_data.camera_rot[2]),
                                    FromAngleZ(scene_data.camera_rot[3]))))
        /\ drawLog[i].world = drawLog[1].world
        /\ drawLog[i].camera = scene_data.camera
        /\ drawLog[i].scene = scene_data

\* a skybox entry and another entry rendered under a moved and turned camera
WitnessOneWorldPerFinish ==
    /\ phase = "Finished"
    /\ scene_data.camera_pos \in Positions
    /\ scene_data.camera_rot \in Rotations
    /\ scene_data.camera \in Cameras
    /\ Len(drawLog) >= 2
    /\ drawLog[1].mat = "SkyboxMat"
    /\ drawLog[2].mat # "SkyboxMat"

\* C5: the scene operations are accepted only while the scene is Open, finish
\* leaves the scene Finished (or panicked), and the only step after that is a
\* new scene from begin_scene
OpenThenFinished ==
    [][/\ lastOp' \in SceneOps => phase = "Open"
       /\ lastOp' = "finish" => phase' \in {"Finished", "Panicked"}
       /\ lastOp' \in SceneOps \ {"finish"} => phase' = "Open"
       /\ phase \in {"Finished", "Panicked"} =>
              (lastOp' = "begin_scene" /\ published' = <<>> /\ drawLog' = <<>>)]_vars

\* finish has rendered a scene's entries and left the scene Finished
WitnessOpenThenFinished ==
    /\ phase = "Finished"
    /\ lastOp = "finish"
    /\ Len(drawLog) >= 2
    /\ polygons >= 1

\* C6: set_skybox(Some(s)) stores s and appends exactly one entry (no indices,
\* the skybox material) per call; set_skybox(None) stores none and leaves the
\* entries alone
SetSkyboxPublishesOnce ==
    [][lastOp' = "set_skybox" =>
         IF scene_data'.skybox.some
         THEN LET e == [id |-> Len(published) + 1, mat |-> "SkyboxMat",
                        idx |-> NoIndices, owner |-> "skybox"]
                  old == IF "SkyboxMat" \in DOMAIN entries THEN entries["SkyboxMat"]
                         ELSE <<>>
              IN  /\ published' = Append(published, e)
                  /\ DOMAIN entries' = DOMAIN entries \cup {"SkyboxMat"}
                  /\ entries'["SkyboxMat"] = Append(old, e)
                  /\ \A t \in DOMAIN entries \ {"SkyboxMat"} : entries'[t] = entries[t]
         ELSE /\ scene_data'.skybox = NoSkybox
              /\ entries' = entries
              /\ published' = published]_vars

\* two calls of set_skybox(Some(..)) have appended two entries
WitnessSetSkyboxPublishesOnce ==
    /\ lastOp = "set_skybox"
    /\ scene_data.skybox.some
    /\ Len(published) = 2
    /\ published[1].owner = "skybox"
    /\ published[2].owner = "skybox"
    /\ Len(entries["SkyboxMat"]) = 2

RECURSIVE RenderedIndices(_)
RenderedIndices(log) ==
    IF log = <<>> THEN 0
    ELSE (IF Head(log).idx.kind \in {"IndexBuffer", "MultidrawArray"}
          THEN Head(log).idx.n ELSE 0) + RenderedIndices(Tail(log))

\* C7: after finish the polygon count is the sum of the index counts of all
\* rendered entries (the skybox bucket's included) divided by 3
PolygonsCountAllRendered ==
    phase = "Finished" => polygons = RenderedIndices(drawLog) \div 3

\* C8: a PBR material rendered without a skybox, or with a skybox lacking the
\* irradiance map, the prefilter map or the BRDF LUT, returns without drawing
PbrWithoutIblIsSilent ==
    \A i \in DOMAIN drawLog :
        LET sky == drawLog[i].scene.skybox
        IN  (/\ drawLog[i].mat = "PBR"
             /\ (~sky.some \/ ~sky.ibl \/ sky.prefilter = "None" \/ ~sky.brdf)) =>
                drawLog[i].outcome = "skip"

\* C9: a PBR material rendered with an SrgbCubemap prefilter map returns
\* without drawing and without a panic, whatever the other two maps are
SrgbPrefilterSkipsDraw ==
    \A i \in DOMAIN drawLog :
        (/\ drawLog[i].mat = "PBR"
         /\ drawLog[i].scene.skybox.some
         /\ drawLog[i].scene.skybox.prefilter = "SrgbCubemap") =>
            drawLog[i].outcome = "skip"

\* a PBR entry was skipped under an sRGB prefilter map with no other map set
WitnessSrgbPrefilterSkipsDraw ==
    /\ phase = "Finished"
    /\ scene_data.skybox.prefilter = "SrgbCubemap"
    /\ ~scene_data.skybox.ibl
    /\ ~scene_data.skybox.brdf
    /\ \E i \in DOMAIN drawLog : drawLog[i].mat = "PBR" /\ drawLog[i].outcome = "skip"

----------------------------------------------------------------------------
(* Properties of the cubemap loader *)

\* the smallest n such that <directory>/<n> does not exist
FirstMissing ==
    CHOOSE n \in 0..MaxLevels :
        /\ ~(n \in DOMAIN fs /\ fs[n].exists)
        /\ \A m \in 0..(n - 1) : fs[m].exists

\* C10: load_mips_fs opens no subfolder at or after the first missing one; a
\* call that returns Ok has loaded exactly the levels 0..n-1 below it, in order;
\* and with n = 0 it returns Err and creates no cubemap
MipsStopAtFirstMissing ==
    loader.call = "load_mips_fs" =>
        /\ \A i \in DOMAIN loader.opened :
               loader.opened[i] = i - 1 /\ loader.opened[i] < FirstMissing
        /\ loader.status = "Ok" =>
               /\ FirstMissing >= 1
               /\ loader.cubemap.some
               /\ loader.cubemap.max_level = FirstMissing - 1
               /\ Len(loader.cubemap.uploads) = 6 * FirstMissing
               /\ \A u \in DOMAIN loader.cubemap.uploads :
                      /\ loader.cubemap.uploads[u].mip = (u - 1) \div 6
                      /\ loader.cubemap.uploads[u].image[1] = (u - 1) \div 6
        /\ FirstMissing = 0 => (loader.status = "Err" /\ ~loader.cubemap.some)
        /\ loader.status = "Err" => ~loader.cubemap.some

\* one level was loaded although a complete subfolder follows the gap
WitnessMipsStopAtFirstMissing ==
    /\ loader.call = "load_mips_fs"
    /\ loader.status = "Ok"
    /\ ~fs[1].exists
    /\ fs[2].exists /\ fs[2].faces = AllFaces
    /\ loader.cubemap.max_level = 0
    /\ loader.opened = <<0>>

\* a subfolder load_mips_fs reads (one below the first missing) lacks a face file
ScannedLevelLacksFace ==
    \E l \in 0..(FirstMissing - 1) : fs[l].faces # AllFaces

\* C11: load_from_fs and load_mips_fs return Err and create no cubemap whenever
\* one of the six face files is missing from the directory or from a level
\* subfolder they read, and then load_ibl_fs returns Err and no Ibl
MissingFaceIsErr ==
    /\ (loader.call = "load_from_fs" /\ fs[0].faces # AllFaces) =>
           (loader.status = "Err" /\ ~loader.cubemap.some)
    /\ (loader.call = "load_mips_fs" /\ ScannedLevelLacksFace) =>
           (loader.status = "Err" /\ ~loader.cubemap.some)
    /\ (ibl.status # "idle" /\ (ibl_map.faces # AllFaces \/ ScannedLevelLacksFace)) =>
           /\ ibl.status = "Err"
           /\ ~ibl.irradiance_map.some /\ ~ibl.prefilter.some /\ ~ibl.brdf

\* load_ibl_fs failed although only one face of prefilter/1 is missing
WitnessMissingFaceIsErr ==
    /\ ibl.status = "Err"
    /\ ibl_map.faces = AllFaces /\ brdf_png
    /\ fs[0].faces = AllFaces
    /\ fs[1].exists /\ Cardinality(fs[1].faces) = 5

----------------------------------------------------------------------------
(* Properties of the cubemap writers and of the image-based-lighting bundle *)

\* the file of the last writing call that the loader decoded into `image`
\* of the directory `dir`, subfolder `level`
WrittenAs(dir, level, image) ==
    {k \in DOMAIN bake.files :
        /\ bake.files[k].where = "destination"
        /\ bake.files[k].dir = dir
        /\ bake.files[k].level = level
        /\ bake.files[k].name = FileName(image[2], "png")}

\* C12: the face index is preserved from the renderer to the GPU: the face of
\* loop index i is written under the i-th file name, the loader reads the names
\* in that order, from_array keeps the i-th image at index i, and load_cubemap
\* uploads index i to TEXTURE_CUBE_MAP_POSITIVE_X + i, which is the image
\* get_from_gl_enum returns for that enum
FaceIndexPreserved ==
    (lastOp = "load_ibl_fs" /\ ibl.status = "Ok") =>
        /\ \A n \in DOMAIN ibl.prefilter.uploads :
             \E u \in {ibl.prefilter.uploads[n]} :
             \E images \in {ReadImages(u.mip, 1, <<>>).images} :
               /\ u.image = <<u.mip, FaceNames[u.target + 1]>>
               /\ u.image = images[u.target + 1]
               /\ u.image = GetFromGlEnum(FromArray(images), u.target)
               /\ \A k \in WrittenAs("prefilter", u.mip, u.image) :
                      bake.files[k].index = u.target
        /\ \A n \in DOMAIN ibl.irradiance_map.uploads :
             \E u \in {ibl.irradiance_map.uploads[n]} :
             \E images \in {ReadFaces(ibl_map, "ibl_map", 1, <<>>).images} :
               /\ u.image = <<"ibl_map", FaceNames[u.target + 1]>>
               /\ u.image = images[u.target + 1]
               /\ u.image = GetFromGlEnum(FromArray(images), u.target)
               /\ \A k \in WrittenAs("ibl_map", 0, u.image) :
                      bake.files[k].index = u.target

\* a bundle was generated into an empty prefilter directory and then loaded
WitnessFaceIndexPreserved ==
    /\ lastOp = "load_ibl_fs" /\ ibl.status = "Ok"
    /\ bake.op = "generate_ibl_from_cubemap" /\ bake.status = "Ok"
    /\ ~bake.destExisted
    /\ \A n \in DOMAIN ibl.prefilter.uploads :
           WrittenAs("prefilter", ibl.prefilter.uploads[n].mip,
                     ibl.prefilter.uploads[n].image) # {}
    /\ \A n \in DOMAIN ibl.irradiance_map.uploads :
           WrittenAs("ibl_map", 0, ibl.irradiance_map.uploads[n].image) # {}

\* the operations that write one cubemap to a directory
CubemapWriters ==
    {"CubemapRender::render", "IrradianceConverter::calculate_to_fs",
     "Equirectangle::compute_from_fs", "Equirectangle::compute_from_fs_hdr"}

\* C13: a cubemap-writing operation that returns has written exactly the six
\* files <destination>/<face>.<extension>, inside the destination directory,
\* whether or not the directory existed before the call
SixFilesInDestination ==
    (bake.op \in CubemapWriters /\ bake.status = "Ok") =>
        /\ Len(bake.files) = 6
        /\ \A k \in DOMAIN bake.files : bake.files[k].where = "destination"
        /\ \E extension \in Extensions :
             {bake.files[k].name : k \in DOMAIN bake.files}
                = {FileName(f, extension) : f \in AllFaces}

\* the operations that bake the prefilter levels to <output>/prefilter
PrefilterBakes ==
    {"Prefilter::calculate_to_fs", "specular::Prefilter::calculate_to_fs",
     "generate_ibl_from_cubemap"}

\* min(MAX_MIP_LEVELS, mip count of the source cubemap)
MinLevels(source_mips) ==
    IF source_mips < MAX_MIP_LEVELS THEN source_mips ELSE MAX_MIP_LEVELS

\* C14: the prefilter cubemap of an Ibl returned by load_ibl_fs has at most
\* min(5, mip count of the source cubemap of the last bake) levels, whatever
\* numeric subfolders the prefilter directory held before that bake
LoadedLevelsBounded ==
    (lastOp = "load_ibl_fs" /\ ibl.status = "Ok"
        /\ bake.op \in PrefilterBakes /\ bake.status = "Ok") =>
        ibl.prefilter.max_level + 1 <= MinLevels(bake.source_mips)

\* C15: the prefilterer bakes exactly min(5, mip count of the source cubemap)
\* levels: level = 0 .. count - 1 in this order, and no file of another level
BakesMinLevels ==
    (bake.op \in PrefilterBakes /\ bake.status = "Ok") =>
        /\ Len(bake.levels) = MinLevels(bake.source_mips)
        /\ \A i \in DOMAIN bake.levels : bake.levels[i].level = i - 1
        /\ \A k \in DOMAIN bake.files :
               bake.files[k].dir = "prefilter" =>
                   bake.files[k].level < MinLevels(bake.source_mips)

\* the levels drawn by the last call, as a set
BakedLevels == {bake.levels[i] : i \in DOMAIN bake.levels}

\* C16: for every number of levels the roughness passed for level 0 is 0, and
\* the roughness does not decrease as the level goes up
RoughnessMonotone ==
    /\ \A a \in BakedLevels :
           /\ a.roughness[2] > 0
           /\ a.level = 0 => a.roughness[1] = 0
    /\ \A a, b \in BakedLevels :
           a.level <= b.level =>
               a.roughness[1] * b.roughness[2] <= b.roughness[1] * a.roughness[2]

\* a bake of three levels has ended, its last level baked with roughness 2/3
WitnessRoughnessMonotone ==
    /\ bake.op = "specular::Prefilter::calculate_to_fs"
    /\ bake.status = "Ok"
    /\ bake.source_mips = 3
    /\ Len(bake.levels) = 3
    /\ bake.levels[3].roughness = <<2, 3>>

\* C17: the roughness baked into level L satisfies
\* roughness * (mipLevels - 1) = L, and the last level is baked with roughness 1
RoughnessSelectsLevel ==
    \A a \in BakedLevels :
        /\ a.roughness[1] * (a.mip_levels - 1) = a.level * a.roughness[2]
        /\ a.level = a.mip_levels - 1 => a.roughness[1] = a.roughness[2]

\* the face of a cubemap a written face is stored as: its layer on the GPU,
\* or the place of its file name in the order the loader reads
StoredAs(f) ==
    IF f.where = "gpu"
    THEN CHOOSE i \in 0..5 : layers[i + 1] = f.name.stem
    ELSE CHOOSE i \in 0..5 : FaceNames[i + 1] = f.name.stem

\* the axis of the faces +X, -X, +Y, -Y, +Z, -Z
Axis(face) ==
    <<  <<1, 0, 0>>, <<-1, 0, 0>>, <<0, 1, 0>>, <<0, -1, 0>>, <<0, 0, 1>>, <<0, 0, -1>>  >>[face + 1]

\* C18: for every cubemap-writing operation the face stored as +X, -X, +Y, -Y,
\* +Z, -Z (file right, left, top, bottom, front, back) is rendered with the
\* camera looking along that same axis
FaceLooksAlongItsAxis ==
    \A k \in DOMAIN bake.files :
        bake.files[k].center = Axis(StoredAs(bake.files[k]))

\* C19: in CubemapRender::render a failure to allocate the color texture, the
\* depth texture or the framebuffer, or a failed draw, makes render return Err
\* instead of panicking
RenderFailureIsErr ==
    (bake.op = "CubemapRender::render"
        /\ bake.fail.kind \in {"color", "depth", "framebuffer", "draw"}) =>
        bake.status = "Err"

\* C20: generate_ibl_from_cubemap runs the prefilter bake, then the irradiance
\* bake, then the BRDF bake; a step that returns an error is the last one run
\* and its error is returned; Ok is returned only after all three succeeded
GenerateStopsAtFirstErr ==
    bake.op = "generate_ibl_from_cubemap" =>
        /\ Len(bake.steps) \in 1..3
        /\ \A i \in DOMAIN bake.steps :
               bake.steps[i].name = <<"prefilter", "irradiance", "brdf">>[i]
        /\ \A i \in 1..(Len(bake.steps) - 1) : bake.steps[i].status = "Ok"
        /\ bake.status = bake.steps[Len(bake.steps)].status
        /\ bake.status = "Ok" => Len(bake.steps) = 3
        /\ Len(bake.steps) = 1 =>
               \A k \in DOMAIN bake.files : bake.files[k].dir = "prefilter"

\* the irradiance bake returned Err after a prefilter bake that succeeded
WitnessGenerateStopsAtFirstErr ==
    /\ bake.op = "generate_ibl_from_cubemap"
    /\ bake.status = "Err"
    /\ Len(bake.steps) = 2
    /\ bake.steps[1].status = "Ok"
    /\ Len(bake.levels) = MAX_MIP_LEVELS
    /\ ~brdf_png

----------------------------------------------------------------------------
(* Claims on the HDR panorama *)

\* the texel of an uploaded panorama at column x, row y
Texel(image, x, y, width) == image[x + (y * width) + 1]

\* `image` is the horizontal mirror image of `source`
IsMirrorOf(image, source, width, height) ==
    /\ Len(image) = width * height
    /\ \A x \in 0..(width - 1), y \in 0..(height - 1) :
          Texel(image, x, y, width) = Texel(source, width - 1 - x, y, width)

\* C21: on every HDR equirectangular-to-cubemap path the source texture the
\* six faces are drawn from is the decoded panorama mirrored horizontally
\* exactly once, that is, its mirror image.
HdrMirroredOnce ==
    hdr.pc = "cubemap" => IsMirrorOf(hdr.uploaded, hdr.decoded, hdr.width, hdr.height)

\* C22: the texture from_fs_hdr uploads holds at (x, y) the decoded pixel of
\* (width - 1 - x, y), for every width and height; rows keep their place, and
\* no pixel takes part in more than one swap.
FromFsHdrMirrors ==
    /\ (hdr.call = "TextureLoader::from_fs_hdr" /\ hdr.pc = "uploaded") =>
          /\ IsMirrorOf(hdr.uploaded, hdr.decoded, hdr.width, hdr.height)
          /\ \A i \in DOMAIN hdr.uploaded : hdr.uploaded[i][2] = hdr.decoded[i][2]
    /\ hdr.call = "TextureLoader::from_fs_hdr" =>
          \A i \in DOMAIN hdr.touched : hdr.touched[i] <= 1

\* an uploaded panorama of odd width, at least 3 columns and 2 rows: the
\* middle column was left alone and every other pixel was swapped once
WitnessFromFsHdrMirrors ==
    /\ hdr.call = "TextureLoader::from_fs_hdr"
    /\ hdr.pc = "uploaded"
    /\ hdr.width % 2 = 1
    /\ hdr.width >= 3
    /\ hdr.height >= 2
    /\ Texel(hdr.uploaded, 0, 1, hdr.width) = <<hdr.width - 1, 1, 0>>
    /\ hdr.touched[(hdr.width \div 2) + 1] = 0
    /\ hdr.touched[1] = 1

----------------------------------------------------------------------------
(* Claims on PbrModel *)

\* C23: after any sequence of PbrModel mutators the model matrix of every
\* segment's material is translation(position) * rotation_matrix, for the
\* position and the rotation matrix the model stores.
SegmentsFollowModel ==
    \A i \in DOMAIN model.segments :
        model.segments[i] = MatMul(FromTranslation(model.position), model.rotation_matrix)

\* C24: relative_rotate(r) leaves the rotation the model had before the call
\* composed with r, so that it accumulates over successive calls.
RelativeRotateComposes ==
    model.call = "relative_rotate" =>
        model.rotation_matrix \in {MatMul(model.before, RotationXYZ(model.arg)),
                                   MatMul(RotationXYZ(model.arg), model.before)}

----------------------------------------------------------------------------
(* Claims on Material::equal *)

\* C28: equal(other) is true only if other has the same concrete type and the
\* same content (every field the draw turns into a uniform), and it is false
\* for an other of a different concrete type.
EqualMeansSameContent ==
    cmp.pc = "equal" =>
        /\ cmp.result => (cmp.other.type = cmp.self.type /\ cmp.other = cmp.self)
        /\ cmp.other.type # cmp.self.type => ~cmp.result

----------------------------------------------------------------------------
(* Claims on load_cubemap *)

\* C30: load_cubemap is not reached with an empty level list from
\* load_from_fs or load_mips_fs; on n >= 1 levels it uploads the six faces of
\* level k exactly once, to mip level k, for k = 0..n-1 in this order, and
\* sets the texture's maximum mip level to n - 1.
LoadCubemapUploadsEachLevelOnce ==
    loader.cubemap.some =>
        LET n == loader.cubemap.max_level + 1
            uploads == loader.cubemap.uploads
        IN  /\ n >= 1
            /\ Len(uploads) = 6 * n
            /\ \A k \in 0..(n - 1), side \in 0..5 :
                  /\ Cardinality({u \in DOMAIN uploads :
                                     uploads[u].mip = k /\ uploads[u].target = side}) = 1
                  /\ Cardinality({u \in DOMAIN uploads :
                                     uploads[u].image = <<k, FaceNames[side + 1]>>}) = 1
                  /\ uploads[6 * k + side + 1] =
                        [target |-> side, mip |-> k, image |-> <<k, FaceNames[side + 1]>>]

\* load_mips_fs found two levels (the third one lacks a face) and uploaded
\* twelve faces, the last six to mip level 1
WitnessLoadCubemapUploadsEachLevelOnce ==
    /\ loader.call = "load_mips_fs"
    /\ loader.status = "Ok"
    /\ loader.cubemap.some
    /\ loader.cubemap.max_level = 1
    /\ Len(loader.cubemap.uploads) = 12
    /\ loader.cubemap.uploads[12] = [target |-> 5, mip |-> 1, image |-> <<1, "back">>]

----------------------------------------------------------------------------
(* Claims on the order of calls per face and on the level resolutions *)

\* the positions of the call `name` in `calls`
CallPositions(calls, name) == {p \in DOMAIN calls : calls[p] = name}

\* the calls of one face are: color and depth cleared, then exactly one draw
\* with one call of the uniform generator, then the read-back, then the write
ClearDrawReadWrite(calls) ==
    /\ Cardinality(CallPositions(calls, "draw")) = 1
    /\ Cardinality(CallPositions(calls, "gen_uniforms") \cup CallPositions(calls, "uniforms")) = 1
    /\ \E cc \in CallPositions(calls, "clear_color"), cd \in CallPositions(calls, "clear_depth"),
          d \in CallPositions(calls, "draw"), r \in CallPositions(calls, "read"),
          s \in CallPositions(calls, "save") :
            cc < d /\ cd < d /\ d < r /\ r < s

\* the operations that write the six faces of a cubemap to files
FileWriters ==
    {"CubemapRender::render", "IrradianceConverter::calculate_to_fs",
     "Equirectangle::compute_from_fs", "Equirectangle::compute_from_fs_hdr",
     "Prefilter::calculate_to_fs", "specular::Prefilter::calculate_to_fs",
     "generate_ibl_from_cubemap"}

\* C26: a cubemap-writing operation handles the faces in the order 0..5 and,
\* for each face, clears color and depth, draws exactly once with one call of
\* the uniform generator, reads back and writes; no face is drawn before its
\* color and depth were cleared.
FaceCallsInOrder ==
    bake.op \in FileWriters =>
        \A k \in DOMAIN bake.files :
            /\ ClearDrawReadWrite(bake.files[k].calls)
            /\ bake.files[k].index =
                  Cardinality({j \in 1..(k - 1) :
                                  /\ bake.files[j].dir = bake.files[k].dir
                                  /\ bake.files[j].level = bake.files[k].level})

\* the base resolution of a prefilter bake
BaseSize(op) ==
    IF op = "specular::Prefilter::calculate_to_fs" THEN SpecularOutputSize
    ELSE PrefilterOutputSize

\* the faces a bake wrote into the subfolder <destination>/<level>
FacesInSubfolder(level) ==
    {bake.files[k].name.stem : k \in {j \in DOMAIN bake.files :
        /\ bake.files[j].where = "destination"
        /\ bake.files[j].dir = "prefilter"
        /\ bake.files[j].level = level}}

\* C27: level L is rendered at floor(base / 2^L) and its six faces go to the
\* subfolder <destination>/<L>; the resolutions strictly decrease with L and
\* are never 0 for a baked level.
LevelSizesHalve ==
    bake.op \in PrefilterBakes =>
        /\ \A a \in BakedLevels :
              /\ a.size * (2 ^ a.level) <= BaseSize(bake.op)
              /\ BaseSize(bake.op) < (a.size + 1) * (2 ^ a.level)
              /\ a.size > 0
              /\ \A b \in BakedLevels : a.level < b.level => a.size > b.size
        /\ \A k \in DOMAIN bake.files :
              bake.files[k].dir = "prefilter" =>
                  /\ bake.files[k].where = "destination"
                  /\ \E a \in BakedLevels : a.level = bake.files[k].level
        /\ bake.fail.kind = "none" =>
              \A a \in BakedLevels : FacesInSubfolder(a.level) = AllFaces

\* a specular bake of five levels has ended: 128, 64, 32, 16 and 8 pixels a
\* side, the last six faces in the subfolder 4
WitnessLevelSizesHalve ==
    /\ bake.op = "specular::Prefilter::calculate_to_fs"
    /\ bake.status = "Ok"
    /\ bake.fail.kind = "none"
    /\ Len(bake.levels) = 5
    /\ [i \in 1..5 |-> bake.levels[i].size] = <<128, 64, 32, 16, 8>>
    /\ FacesInSubfolder(4) = AllFaces

----------------------------------------------------------------------------
(* Claims on the frames of a scene *)

\* C25: every begin_scene hands out a scene with no entries, no skybox, no
\* lights, no scene variables and zeroed camera data, whatever the frames
\* before it published or set; the polygon count of the renderer is carried
\* over unchanged.
BeginSceneStartsEmpty ==
    [][(phase # "Open" /\ phase' = "Open") =>
          /\ entries' = <<>>
          /\ DOMAIN entries' = {}
          /\ ~scene_data'.skybox.some
          /\ scene_data'.raw_lights.colors = <<>>
          /\ scene_data'.raw_lights.positions = <<>>
          /\ DOMAIN scene_data'.scene_variables = {}
          /\ scene_data'.camera = ZeroMatrix
          /\ scene_data'.camera_pos = <<0, 0, 0>>
          /\ scene_data'.camera_rot = <<0, 0, 0>>
          /\ polygons' = polygons]_vars

\* a frame that drew the model has ended, and the next frame has begun: the
\* polygon count of the frame before is still there
WitnessBeginSceneStartsEmpty ==
    /\ lastOp = "begin_scene"
    /\ phase = "Open"
    /\ polygons = 2
    /\ scene_data = DefaultSceneData

\* C29: the draws of finish are those of the published entries with the scene
\* data held at finish time: the camera, the world matrix and the scene data of
\* every draw are the ones of that moment, whether the camera was set before or
\* after the entry (or the model) was published, and the entries of one type are
\* drawn in publish order.
DrawsUseSceneAtFinish ==
    FinishCalled =>
        /\ \A i \in DOMAIN drawLog :
              /\ drawLog[i].id \in DOMAIN published
              /\ drawLog[i].mat = published[drawLog[i].id].mat
              /\ drawLog[i].idx = published[drawLog[i].id].idx
              /\ drawLog[i].camera = scene_data.camera
              /\ drawLog[i].world = World(scene_data)
              /\ drawLog[i].scene = scene_data
              /\ drawLog[i].outcome = MaterialRender(drawLog[i].mat, scene_data)
        /\ \A i, j \in DOMAIN drawLog :
              (i < j /\ drawLog[i].mat = drawLog[j].mat) => drawLog[i].id < drawLog[j].id

\* a model was published while the camera was at the origin, the camera was
\* moved and turned afterwards, and finish drew the model's segments
WitnessDrawsUseSceneAtFinish ==
    /\ phase = "Finished"
    /\ Len(lod) = 1
    /\ lod[1].camera_pos = <<0, 0, 0>>
    /\ scene_data.camera_pos \in Positions
    /\ scene_data.camera_rot \in Rotations
    /\ scene_data.camera \in Cameras
    /\ \E i \in DOMAIN drawLog :
          /\ drawLog[i].id \in lod[1].first..lod[1].last
          /\ drawLog[i].outcome = "draw"
          /\ drawLog[i].world = World(scene_data)

====
